---- MODULE Spec2Model ----
(***************************************************************************)
(* A model of the TLS record engine of kernel/src/tls: the fixed-capacity  *)
(* record buffer (buffer.rs) and the per-connection state machine          *)
(* (connection.rs) that drives rustls' unbuffered client connection over a *)
(* blocking byte-stream transport.                                         *)
(***************************************************************************)
EXTENDS Integers, Sequences, FiniteSets, TLC

\* ------------------------------------------------------------------------
\* Program constants (constant.rs)
\* ------------------------------------------------------------------------
HEADER_LEN == 5
FIRST_LEN_BYTE_POS == 4
SECOND_LEN_BYTE_POS == 3

\* ------------------------------------------------------------------------
\* Bounds of the model
\* ------------------------------------------------------------------------
\* Capacity of the buffer exercised through its API on its own.
BufCap == 4
\* Largest in-range argument handed to a buffer operation.
MaxArg == 5
\* Arguments near the top of usize: 2^64 - k for k in 1..MaxWrap.
MaxWrap == 2

\* ------------------------------------------------------------------------
\* usize arithmetic.  A usize value x in [0, 2^64) is represented by the
\* integer x when it is small and by x - 2^64 when it is within MaxWrap of
\* 2^64 (two's complement).  Integer addition of representatives is then
\* addition modulo 2^64, and the order below is the unsigned order.
\* ------------------------------------------------------------------------
UGt(a, b) == IF (a < 0) = (b < 0) THEN a > b ELSE a < 0
ULt(a, b) == UGt(b, a)
\* The unsigned sum a + n reaches 2^64: "attempt to add with overflow".
Overflows(a, n) == (a < 0 \/ n < 0) /\ a + n >= 0

\* F applied to the value of v: v is computed once, as the value of a local
\* variable is, however often F refers to it.
Once(v, F(_)) == CHOOSE r \in {F(x) : x \in {v}} : TRUE
Once2(v, w, F(_, _)) == CHOOSE r \in {F(x, y) : x \in {v}, y \in {w}} : TRUE
Once3(u, v, w, F(_, _, _)) ==
    CHOOSE r \in {F(x, y, z) : x \in {u}, y \in {v}, z \in {w}} : TRUE

\* ------------------------------------------------------------------------
\* TlsBuffer (buffer.rs).  buf is 1-indexed here: byte offset i of the
\* source is buf[i + 1].  Every operation yields [res, b]: the result
\* ("Ok", "BufferTooSmall", or "Panic" when the call aborts the program)
\* and the buffer afterwards.
\* ------------------------------------------------------------------------
TlsBuffer_new(size) == [buf |-> [i \in 1..size |-> 0], head |-> 0, tail |-> 0]

Capacity(b) == Len(b.buf)

\* &self.buf[self.head..self.tail]
curr_used_buf_as_ref(b) == [i \in 1..(b.tail - b.head) |-> b.buf[b.head + i]]

\* &mut self.buf[self.tail..]
remaining_buf_len(b) == Capacity(b) - b.tail

\* The range check of mutable_slice_from_remaining; on Ok the caller holds
\* the slice buf[tail .. tail+size).
\* (When tail + size wraps, a build without overflow checks passes the range
\* check and then panics on the slice index tail..tail+size.)
mutable_slice_from_remaining(b, size) ==
    IF Overflows(b.tail, size)
    THEN [res |-> "Panic", b |-> b]
    ELSE IF UGt(b.tail + size, Capacity(b))
         THEN [res |-> "BufferTooSmall", b |-> b]
         ELSE [res |-> "Ok", b |-> b]

\* The caller's write through a slice of the free region starting at tail.
WriteSlice(b0, data0) ==
    Once2(b0, data0, LAMBDA b, data :
    [b EXCEPT !.buf = [i \in 1..Capacity(b) |->
        IF i > b.tail /\ i <= b.tail + Len(data) THEN data[i - b.tail] ELSE b.buf[i]]])

\* A variant of the length extraction that reads the field low byte first.
extract_record_len_low_byte_first(b) ==
    IF b.tail + HEADER_LEN > Capacity(b)
    THEN [res |-> "BufferTooSmall", len |-> 0]
    ELSE [res |-> "Ok",
          len |-> b.buf[b.tail + FIRST_LEN_BYTE_POS + 1] * 256
                  + b.buf[b.tail + SECOND_LEN_BYTE_POS + 1]]

extract_record_len_from_current_position(b) ==
    IF b.tail + HEADER_LEN > Capacity(b)
    THEN [res |-> "BufferTooSmall", len |-> 0]
    ELSE [res |-> "Ok",
          len |-> b.buf[b.tail + SECOND_LEN_BYTE_POS + 1] * 256
                  + b.buf[b.tail + FIRST_LEN_BYTE_POS + 1]]

advance_used(b, n, checks) ==
    IF Overflows(b.tail, n) /\ checks
    THEN [res |-> "Panic", b |-> b]
    ELSE IF UGt(b.tail + n, Capacity(b))
         THEN [res |-> "BufferTooSmall", b |-> b]
         ELSE [res |-> "Ok", b |-> [b EXCEPT !.tail = b.tail + n]]

reset_used(b) == [b EXCEPT !.head = 0, !.tail = 0]

\* A compaction that moves the pointers and leaves the bytes where they were.
compact_without_copy(b) ==
    IF b.head = 0
    THEN [res |-> "Ok", b |-> b]
    ELSE [res |-> "Ok", b |-> [b EXCEPT !.head = 0, !.tail = b.tail - b.head]]

compact(b0) ==
    Once(b0, LAMBDA b :
    IF b.head = 0
    THEN [res |-> "Ok", b |-> b]
    ELSE IF b.head > b.tail
         THEN [res |-> "Panic", b |-> b]
         ELSE [res |-> "Ok",
               b |-> [buf |-> [i \in 1..Capacity(b) |->
                                  IF i <= b.tail - b.head
                                  THEN b.buf[b.head + i] ELSE b.buf[i]],
                      head |-> 0,
                      tail |-> b.tail - b.head]])

\* An ensure_space that compacts before looking at the free space.
ensure_space_eager(b, needed) ==
    LET c == compact(b) IN
    IF c.res = "Panic"
    THEN c
    ELSE IF ULt(Capacity(c.b) - c.b.tail, needed)
         THEN [res |-> "BufferTooSmall", b |-> c.b]
         ELSE [res |-> "Ok", b |-> c.b]

ensure_space(b, needed) ==
    IF ~ULt(Capacity(b) - b.tail, needed)
    THEN [res |-> "Ok", b |-> b]
    ELSE LET c == compact(b) IN
         IF c.res = "Panic"
         THEN c
         ELSE IF ULt(Capacity(c.b) - c.b.tail, needed)
              THEN [res |-> "BufferTooSmall", b |-> c.b]
              ELSE [res |-> "Ok", b |-> c.b]

move_head(b, n, checks) ==
    IF Overflows(b.head, n) /\ checks
    THEN [res |-> "Panic", b |-> b]
    ELSE IF UGt(b.head + n, b.tail)
         THEN [res |-> "Ok", b |-> [b EXCEPT !.head = b.tail]]
         ELSE [res |-> "Ok", b |-> [b EXCEPT !.head = b.head + n]]

\* ------------------------------------------------------------------------
\* On-wire records.  A record is the 5-byte header
\* [content type][version:2][length:2, big-endian] and `length` payload
\* bytes.  A protected payload is the masked content followed by one tag
\* byte that binds the record to the sender's record sequence number.
\* ------------------------------------------------------------------------
CT_ALERT == 21
CT_HANDSHAKE == 22
CT_APPDATA == 23

Mask(p) == [i \in 1..Len(p) |-> 255 - p[i]]
\* The tag of the record with sequence number seq: a byte no header and no
\* masked content holds, as no stray bytes carry a valid AEAD tag.
Tag(seq) == 100 + seq
Seal(p, seq) == Mask(p) \o <<Tag(seq)>>
Header(typ, len) == <<typ, 3, 3, len \div 256, len % 256>>
Record(typ, p, seq) == Header(typ, Len(p) + 1) \o Seal(p, seq)

SubSeqFrom(s, from, n) == [i \in 1..n |-> s[from + i]]

\* ------------------------------------------------------------------------
\* The protocol engine (rustls' UnbufferedClientConnection): an external
\* collaborator, modelled from its contract.  It queues handshake chunks to
\* encode, interprets the unconsumed inbound bytes record by record, and
\* yields one abstract state per call together with the bytes to discard.
\* ------------------------------------------------------------------------
\* Handshake records the peer sends before the client may finish.
ServerFlight == 2

ClientHello == Record(CT_HANDSHAKE, <<>>, 0)
ClientCcs == Record(CT_HANDSHAKE, <<>>, 1)
ClientFinished == Record(CT_HANDSHAKE, <<>>, 2)
\* The client's protected records are numbered from here on.
FirstTrafficSeq == 3

Engine_new ==
    [sendable |-> <<ClientHello>>,  \* handshake chunks waiting to be encoded
     wants_write |-> FALSE,         \* encoded data waits to be transmitted
     handshaking |-> TRUE,          \* is_handshaking()
     may_send |-> FALSE,            \* traffic keys are ready
     flight |-> 0,                  \* handshake records of the peer seen
     rseq |-> 0,                    \* inbound records accepted
     wseq |-> FirstTrafficSeq,      \* sequence number of the next outbound record
     recv_close |-> FALSE,          \* the peer's close_notify was received
     sent_close |-> FALSE,          \* our close_notify was queued
     emitted_peer_closed |-> FALSE,
     reports |-> 0]                 \* states reported by an engine free to report any

\* The next record of `used` after `d` consumed bytes: none (not a whole
\* record there), or its type, size and payload.
Deframe(used, d) ==
    IF Len(used) - d < HEADER_LEN
    THEN [kind |-> "none"]
    ELSE LET len == used[d + 4] * 256 + used[d + 5] IN
         IF Len(used) - d < HEADER_LEN + len
         THEN [kind |-> "none"]
         ELSE [kind |-> "record", typ |-> used[d + 1], size |-> HEADER_LEN + len,
               payload |-> SubSeqFrom(used, d + HEADER_LEN, len)]

\* The tag check and unmasking of a protected payload.
Open(payload, seq) ==
    IF Len(payload) = 0 \/ payload[Len(payload)] # Tag(seq)
    THEN [ok |-> FALSE, plain |-> <<>>]
    ELSE [ok |-> TRUE, plain |-> Mask(SubSeqFrom(payload, 0, Len(payload) - 1))]

\* The state the engine reports when no further record can be processed.
IdleState(c, d) ==
    IF c.wants_write
    THEN [state |-> "TransmitTlsData", discard |-> d, conn |-> c]
    ELSE IF c.recv_close /\ ~c.emitted_peer_closed
    THEN [state |-> "PeerClosed", discard |-> d,
          conn |-> [c EXCEPT !.emitted_peer_closed = TRUE]]
    ELSE IF c.recv_close /\ c.sent_close
    THEN [state |-> "Closed", discard |-> d, conn |-> c]
    ELSE IF c.may_send
    THEN [state |-> "WriteTraffic", discard |-> d, conn |-> c]
    ELSE [state |-> "BlockedHandshake", discard |-> d, conn |-> c]

EngineError(e, c, d) == [state |-> "Err", err |-> e, discard |-> d, conn |-> c]

\* process_tls_records: interpret used[d..] and report a state.
RECURSIVE process_tls_records(_, _, _)
process_tls_records(c, used, d) ==
    IF c.sendable # <<>>
    THEN [state |-> "EncodeTlsData", discard |-> d, chunk |-> Head(c.sendable),
          conn |-> [c EXCEPT !.sendable = Tail(@)]]
    ELSE LET fr == IF c.recv_close THEN [kind |-> "none"] ELSE Deframe(used, d) IN
    IF fr.kind = "none"
    THEN IdleState(c, d)
    ELSE LET op == Open(fr.payload, c.rseq)
             c1 == [c EXCEPT !.rseq = @ + 1] IN
    IF fr.typ \notin {CT_ALERT, CT_HANDSHAKE, CT_APPDATA}
    THEN EngineError("InvalidMessage", c, d)
    ELSE IF ~op.ok
    THEN EngineError("DecryptError", c, d)
    ELSE IF fr.typ = CT_ALERT
    THEN process_tls_records([c1 EXCEPT !.recv_close = TRUE], used, d + fr.size)
    ELSE IF fr.typ = CT_HANDSHAKE
    THEN IF c.handshaking /\ c.flight + 1 = ServerFlight
         THEN process_tls_records(
                  [c1 EXCEPT !.flight = @ + 1, !.may_send = TRUE,
                             !.handshaking = FALSE,
                             !.sendable = <<ClientCcs, ClientFinished>>],
                  used, d + fr.size)
         ELSE process_tls_records([c1 EXCEPT !.flight = @ + 1], used, d + fr.size)
    ELSE IF ~c.may_send
    THEN EngineError("InvalidMessage", c, d)
    ELSE [state |-> "ReadTraffic", discard |-> d, conn |-> c1,
          record |-> [discard |-> fr.size, payload |-> op.plain]]

\* EncodeTlsData::encode into a slice of `room` bytes.
Engine_encode(c, chunk, room) ==
    IF Len(chunk) > room
    THEN [res |-> "EncodeError", bytes |-> <<>>, conn |-> c]
    ELSE [res |-> "Ok", bytes |-> chunk, conn |-> [c EXCEPT !.wants_write = TRUE]]

\* TransmitTlsData::done
Engine_done(c) == [c EXCEPT !.wants_write = FALSE]

\* WriteTraffic::encrypt into a slice of `room` bytes.
Engine_encrypt(c, data, room) ==
    LET rec == Record(CT_APPDATA, data, c.wseq) IN
    IF Len(rec) > room
    THEN [res |-> "EncryptError", bytes |-> <<>>, conn |-> c]
    ELSE [res |-> "Ok", bytes |-> rec, conn |-> [c EXCEPT !.wseq = @ + 1]]

\* WriteTraffic::queue_close_notify into a slice of `room` bytes.
Engine_queue_close_notify(c, room) ==
    LET rec == Record(CT_ALERT, <<>>, c.wseq) IN
    IF c.sent_close
    THEN [res |-> "Ok", bytes |-> <<>>, conn |-> c]
    ELSE IF Len(rec) > room
    THEN [res |-> "EncryptError", bytes |-> <<>>, conn |-> c]
    ELSE [res |-> "Ok", bytes |-> rec,
          conn |-> [c EXCEPT !.wseq = @ + 1, !.sent_close = TRUE]]

\* ------------------------------------------------------------------------
\* TlsConnection (connection.rs).  `s` is the connection's own state
\* [status, in_buffer, out_buffer]; the engine `c` and the transport are
\* passed beside it.  The transport's answers are the environment's choice:
\* `wo` for a write ("full", "short", "err"), `feed` for the two reads of a
\* record receive.
\* ------------------------------------------------------------------------
ConnectionDetails_new ==
    [handshake_complete |-> FALSE, request_sent |-> FALSE,
     received_response |-> FALSE, peer_closed |-> FALSE,
     our_side_closed |-> FALSE, connection_closed |-> FALSE]

\* Capacities of the two buffers of a connection (IN_BUF_SIZE and
\* OUT_BUF_SIZE, scaled to the record sizes of the model).
InCap == 11
OutCap == 12

TlsConnection_new ==
    [status |-> ConnectionDetails_new,
     in_buffer |-> TlsBuffer_new(InCap),
     out_buffer |-> TlsBuffer_new(OutCap)]

\* What a step or an operation hands back: its result, the state after it,
\* the transport reads and writes it made and the bytes it put on the wire,
\* and (a read step) the bytes copied to the caller.
Outcome(res, s, c, reads, writes, wire, copied) ==
    [res |-> res, self |-> s, conn |-> c, reads |-> reads, writes |-> writes,
     wire |-> wire, copied |-> copied]

\* encode / encrypt / queue_close_notify (e) wrote e.bytes at tail of the
\* outbound buffer: advance_used(bytes_written)?.
CommitOut(e0, out_buffer0, checks) ==
    Once2(e0, out_buffer0, LAMBDA e, out_buffer :
    IF e.res # "Ok"
    THEN [res |-> e.res, b |-> out_buffer, conn |-> e.conn]
    ELSE [res |-> advance_used(WriteSlice(out_buffer, e.bytes), Len(e.bytes), checks).res,
          b |-> advance_used(WriteSlice(out_buffer, e.bytes), Len(e.bytes), checks).b,
          conn |-> e.conn])

prepare_handshake_record(c, chunk, out_buffer, checks) ==
    CommitOut(Engine_encode(c, chunk, remaining_buf_len(out_buffer)), out_buffer, checks)

encrypt_data(c, out_buffer, data, checks) ==
    CommitOut(Engine_encrypt(c, data, remaining_buf_len(out_buffer)), out_buffer, checks)

prepare_queue_close_notify(c, out_buffer, checks) ==
    CommitOut(Engine_queue_close_notify(c, remaining_buf_len(out_buffer)), out_buffer, checks)

\* sock.write(used)?; reset_used().  The count sock.write returns is not
\* looked at: a short write ("short": all but the last byte) passes for a
\* full one.
Transmitted(used, wo) ==
    IF wo = "short" /\ Len(used) > 0 THEN SubSeqFrom(used, 0, Len(used) - 1) ELSE used

send_record_over_vsock(out_buffer, wo) ==
    IF wo = "err"
    THEN [res |-> "IoError", b |-> out_buffer, wire |-> <<>>]
    ELSE [res |-> "Ok", b |-> reset_used(out_buffer),
          wire |-> Transmitted(curr_used_buf_as_ref(out_buffer), wo)]

\* recv_record_over_vsock, stage by stage.  feed = [err, hdr, body]: the
\* first read fails (err), or delivers hdr (at most HEADER_LEN bytes); the
\* second delivers as much of body as fits the slice it is given.
Reads(r, n) == [res |-> r.res, b |-> r.b, reads |-> n]
Take(data, n) == IF Len(data) > n THEN SubSeqFrom(data, 0, n) ELSE data

\* The payload was read into b2: the length check and the commit.
RecvCommitPayload(b2, got, payload_len, checks) ==
    IF Len(got) # payload_len
    THEN [res |-> "IncompleteRead", b |-> b2, reads |-> 2]
    ELSE Reads(advance_used(b2, payload_len, checks), 2)

\* e2 is ensure_space(payload_len): the second read, into the free region.
RecvPayload(e2, payload_len, feed, checks) ==
    IF e2.res # "Ok" THEN Reads(e2, 1)
    ELSE IF mutable_slice_from_remaining(e2.b, payload_len).res # "Ok"
    THEN [res |-> "BufferTooSmall", b |-> e2.b, reads |-> 1]
    ELSE RecvCommitPayload(WriteSlice(e2.b, Take(feed.body, payload_len)),
                           Take(feed.body, payload_len), payload_len, checks)

\* A variant of the receive that reads the payload over the header it has
\* not committed.
RecvAfterHeader_uncommitted(a1, payload_len, feed, checks) ==
    IF a1.res # "Ok" THEN Reads(a1, 1)
    ELSE RecvPayload(ensure_space(reset_used(a1.b), payload_len), payload_len, feed, checks)

\* a1 is advance_used(HEADER_LEN) after the length was extracted.
RecvAfterHeader(a1, payload_len, feed, checks) ==
    IF a1.res # "Ok" THEN Reads(a1, 1)
    ELSE RecvPayload(ensure_space(a1.b, payload_len), payload_len, feed, checks)

\* x is the extracted length, b1 the buffer holding the header behind tail.
RecvParseHeader(b10, x0, feed, checks) ==
    Once2(b10, x0, LAMBDA b1, x :
    IF x.res # "Ok" THEN [res |-> x.res, b |-> b1, reads |-> 1]
    ELSE RecvAfterHeader(advance_used(b1, HEADER_LEN, checks), x.len, feed, checks))

\* b1 is the buffer after the first read wrote feed.hdr behind tail.
\* Variant: the bytes of a short header are committed before the check.
RecvHeaderRead_committing(b1, feed, checks) ==
    IF Len(feed.hdr) # HEADER_LEN
    THEN [res |-> "IncompleteRead",
          b |-> advance_used(b1, Len(feed.hdr), checks).b, reads |-> 1]
    ELSE RecvParseHeader(b1, extract_record_len_from_current_position(b1), feed, checks)

\* The buffer after the first read wrote feed.hdr behind tail.

RecvHeaderRead(b1, feed, checks) ==
    IF Len(feed.hdr) # HEADER_LEN
    THEN [res |-> "IncompleteRead", b |-> b1, reads |-> 1]
    ELSE RecvParseHeader(b1, extract_record_len_from_current_position(b1), feed, checks)

\* e1 is ensure_space(HEADER_LEN): the first read.
RecvHeader(e1, feed, checks) ==
    IF e1.res # "Ok" THEN Reads(e1, 0)
    ELSE IF mutable_slice_from_remaining(e1.b, HEADER_LEN).res # "Ok"
    THEN [res |-> "BufferTooSmall", b |-> e1.b, reads |-> 0]
    ELSE IF feed.err THEN [res |-> "IoError", b |-> e1.b, reads |-> 1]
    ELSE RecvHeaderRead(WriteSlice(e1.b, feed.hdr), feed, checks)

recv_record_over_vsock(in_buffer, feed, checks) ==
    RecvHeader(ensure_space(in_buffer, HEADER_LEN), feed, checks)

\* in_buffer.move_head(discard) on the connection's state.
Discard(s, d, checks) ==
    [s EXCEPT !.in_buffer = move_head(s.in_buffer, d, checks).b]

\* The intents of TlsAction.
Handshake == [kind |-> "Handshake", buffer |-> <<>>, cap |-> 0]
ReadRecord(cap) == [kind |-> "ReadRecord", buffer |-> <<>>, cap |-> cap]
WriteRecord(data) == [kind |-> "WriteRecord", buffer |-> data, cap |-> 0]
CloseConnection == [kind |-> "CloseConnection", buffer |-> <<>>, cap |-> 0]

\* A variant of the error return that marks the connection closed.
Failed_closing(e, s, c) ==
    [res |-> e, self |-> [s EXCEPT !.status.connection_closed = TRUE], conn |-> c,
     reads |-> 0, writes |-> 0, wire |-> <<>>, copied |-> <<>>]

\* A variant of the error return that drops the inbound bytes.
Failed_dropping(e, s, c) ==
    [res |-> e, self |-> [s EXCEPT !.in_buffer = reset_used(@)], conn |-> c,
     reads |-> 0, writes |-> 0, wire |-> <<>>, copied |-> <<>>]

Failed(e, s, c) == Outcome(e, s, c, 0, 0, <<>>, <<>>)

WithOut(s, b) == [s EXCEPT !.out_buffer = b]
WithIn(s, b) == [s EXCEPT !.in_buffer = b]

\* The branches of tls_state_machine_advance; r is what the engine reported.
EncodeTlsData_prepared(s, r, p, checks) ==
    IF p.res # "Ok" THEN Failed(p.res, WithOut(s, p.b), p.conn)
    ELSE Outcome("Ok", Discard(WithOut(s, p.b), r.discard, checks), p.conn,
                 0, 0, <<>>, <<>>)

on_EncodeTlsData(s, r, action, checks) ==
    IF action.kind # "Handshake" THEN Failed("UnexpectedState", s, r.conn)
    ELSE EncodeTlsData_prepared(s, r,
             prepare_handshake_record(r.conn, r.chunk, s.out_buffer, checks), checks)

\* A variant of the transmit step that does not ask is_handshaking().
TransmitTlsData_done_unasked(s, c2, d, checks) ==
    [Discard(s, d, checks) EXCEPT !.status.handshake_complete = TRUE]

\* done(), move_head(discard), and the look at is_handshaking().
TransmitTlsData_done(s, c2, d, checks) ==
    IF ~c2.handshaking
    THEN [Discard(s, d, checks) EXCEPT !.status.handshake_complete = TRUE]
    ELSE Discard(s, d, checks)

TransmitTlsData_sent(s, r, snd, checks) ==
    IF snd.res # "Ok" THEN Outcome(snd.res, WithOut(s, snd.b), r.conn, 0, 1, <<>>, <<>>)
    ELSE Outcome("Ok",
                 TransmitTlsData_done(WithOut(s, snd.b), Engine_done(r.conn),
                                      r.discard, checks),
                 Engine_done(r.conn), 0, 1, snd.wire, <<>>)

on_TransmitTlsData(s, r, action, wo, checks) ==
    IF action.kind # "Handshake" THEN Failed("UnexpectedState", s, r.conn)
    ELSE TransmitTlsData_sent(s, r, send_record_over_vsock(s.out_buffer, wo), checks)

\* move_head(discard); recv_record_over_vsock()?
Receive_done(s10, c0, rc0) ==
    Once3(s10, c0, rc0, LAMBDA s1, c, rc :
    Outcome(rc.res, WithIn(s1, rc.b), c, rc.reads, 0, <<>>, <<>>))

DiscardAndReceive(s, r, feed, checks) ==
    Receive_done(Discard(s, r.discard, checks), r.conn,
                 recv_record_over_vsock(Discard(s, r.discard, checks).in_buffer,
                                        feed, checks))

on_BlockedHandshake(s, r, action, feed, checks) ==
    IF action.kind # "Handshake" THEN Failed("UnexpectedState", s, r.conn)
    ELSE DiscardAndReceive(s, r, feed, checks)

\* The status flag a WriteTraffic step sets once its record is on the wire.
MarkRequestSent(s) == [s EXCEPT !.status.request_sent = TRUE]
\* A variant that treats sending close_notify as closing both directions.
MarkOurSideClosed_both(s) ==
    [s EXCEPT !.status.our_side_closed = TRUE, !.status.peer_closed = TRUE]
MarkOurSideClosed(s) == [s EXCEPT !.status.our_side_closed = TRUE]

\* send_record_over_vsock()? (snd), then the flag and move_head(discard).
WriteTraffic_sent(s1, c, d, snd, kind, checks) ==
    IF snd.res # "Ok" THEN Outcome(snd.res, WithOut(s1, snd.b), c, 0, 1, <<>>, <<>>)
    ELSE Outcome("Ok",
                 Discard(IF kind = "WriteRecord"
                         THEN MarkRequestSent(WithOut(s1, snd.b))
                         ELSE MarkOurSideClosed(WithOut(s1, snd.b)),
                         d, checks),
                 c, 0, 1, snd.wire, <<>>)

\* e is what encrypt_data or prepare_queue_close_notify gave.
WriteTraffic_prepared(s0, r0, e0, wo, kind, checks) ==
    Once3(s0, r0, e0, LAMBDA s, r, e :
    IF e.res # "Ok" THEN Failed(e.res, WithOut(s, e.b), e.conn)
    ELSE WriteTraffic_sent(WithOut(s, e.b), e.conn, r.discard,
                           send_record_over_vsock(e.b, wo), kind, checks))

\* A WriteTraffic branch that sends close_notify on every close step.
on_WriteTraffic_renotify(s, r, action, feed, wo, checks) ==
    IF action.kind = "Handshake" THEN Failed("UnexpectedState", s, r.conn)
    ELSE IF action.kind = "WriteRecord"
    THEN WriteTraffic_prepared(s, r,
             encrypt_data(r.conn, s.out_buffer, action.buffer, checks),
             wo, action.kind, checks)
    ELSE IF action.kind = "CloseConnection"
    THEN WriteTraffic_prepared(s, r,
             prepare_queue_close_notify(r.conn, s.out_buffer, checks),
             wo, action.kind, checks)
    ELSE DiscardAndReceive(s, r, feed, checks)

\* A WriteTraffic branch without the check of the handshake intent.
on_WriteTraffic_unchecked(s, r, action, feed, wo, checks) ==
    IF action.kind = "WriteRecord"
    THEN WriteTraffic_prepared(s, r,
             encrypt_data(r.conn, s.out_buffer, action.buffer, checks),
             wo, action.kind, checks)
    ELSE IF action.kind = "CloseConnection" /\ ~s.status.our_side_closed
    THEN WriteTraffic_prepared(s, r,
             prepare_queue_close_notify(r.conn, s.out_buffer, checks),
             wo, action.kind, checks)
    ELSE DiscardAndReceive(s, r, feed, checks)

on_WriteTraffic(s, r, action, feed, wo, checks) ==
    IF action.kind = "Handshake" THEN Failed("UnexpectedState", s, r.conn)
    ELSE IF action.kind = "WriteRecord"
    THEN WriteTraffic_prepared(s, r,
             encrypt_data(r.conn, s.out_buffer, action.buffer, checks),
             wo, action.kind, checks)
    ELSE IF action.kind = "CloseConnection" /\ ~s.status.our_side_closed
    THEN WriteTraffic_prepared(s, r,
             prepare_queue_close_notify(r.conn, s.out_buffer, checks),
             wo, action.kind, checks)
    ELSE DiscardAndReceive(s, r, feed, checks)

Min(a, b) == IF a < b THEN a ELSE b

\* A ReadTraffic branch that forgets to flag the response.
on_ReadTraffic_unflagged(s, r, action, checks) ==
    IF action.kind # "ReadRecord" THEN Failed("UnexpectedState", s, r.conn)
    ELSE Outcome("Ok", Discard(s, r.discard + r.record.discard, checks),
                 r.conn, 0, 0, <<>>,
                 SubSeqFrom(r.record.payload, 0, Min(action.cap, Len(r.record.payload))))

\* A ReadTraffic branch that copies the whole payload whatever the length
\* of the caller's buffer.
on_ReadTraffic_uncapped(s, r, action, checks) ==
    IF action.kind # "ReadRecord" THEN Failed("UnexpectedState", s, r.conn)
    ELSE Outcome("Ok",
                 [Discard(s, r.discard + r.record.discard, checks)
                     EXCEPT !.status.received_response = TRUE],
                 r.conn, 0, 0, <<>>, r.record.payload)

\* A variant of the ReadTraffic branch that drops the record under an
\* intent other than read.
on_ReadTraffic_dropping(s, r, action, checks) ==
    IF action.kind # "ReadRecord"
    THEN Outcome("Ok", Discard(s, r.discard + r.record.discard, checks), r.conn,
                 0, 0, <<>>, <<>>)
    ELSE Outcome("Ok",
                 [Discard(s, r.discard + r.record.discard, checks)
                     EXCEPT !.status.received_response = TRUE],
                 r.conn, 0, 0, <<>>,
                 SubSeqFrom(r.record.payload, 0, Min(action.cap, Len(r.record.payload))))

on_ReadTraffic(s, r, action, checks) ==
    IF action.kind # "ReadRecord" THEN Failed("UnexpectedState", s, r.conn)
    ELSE Outcome("Ok",
                 [Discard(s, r.discard + r.record.discard, checks)
                     EXCEPT !.status.received_response = TRUE],
                 r.conn, 0, 0, <<>>,
                 SubSeqFrom(r.record.payload, 0, Min(action.cap, Len(r.record.payload))))

\* A variant that takes the peer's close_notify for the end of the connection.
on_PeerClosed_closing(s, r, checks) ==
    Outcome("Ok",
            [Discard(s, r.discard, checks) EXCEPT !.status.peer_closed = TRUE,
                                                  !.status.connection_closed = TRUE],
            r.conn, 0, 0, <<>>, <<>>)

on_PeerClosed(s, r, checks) ==
    Outcome("Ok", [Discard(s, r.discard, checks) EXCEPT !.status.peer_closed = TRUE],
            r.conn, 0, 0, <<>>, <<>>)

\* A variant that takes note of nothing when the engine reports Closed.
on_Closed_unmarked(s, r) == Outcome("Ok", s, r.conn, 0, 0, <<>>, <<>>)

\* A variant that starts the status over when the connection closes.
on_Closed_reset(s, r) ==
    Outcome("Ok",
            [s EXCEPT !.status = [ConnectionDetails_new EXCEPT !.connection_closed = TRUE]],
            r.conn, 0, 0, <<>>, <<>>)

on_Closed(s, r) ==
    Outcome("Ok", [s EXCEPT !.status.connection_closed = TRUE], r.conn, 0, 0, <<>>, <<>>)

\* The match on the state the engine reported.
Dispatch(s0, r0, action, feed, wo, checks) ==
    Once2(s0, r0, LAMBDA s, r :
    CASE r.state = "Err" -> Failed(r.err, s, r.conn)
      [] r.state = "EncodeTlsData" -> on_EncodeTlsData(s, r, action, checks)
      [] r.state = "TransmitTlsData" -> on_TransmitTlsData(s, r, action, wo, checks)
      [] r.state = "BlockedHandshake" -> on_BlockedHandshake(s, r, action, feed, checks)
      [] r.state = "WriteTraffic" -> on_WriteTraffic(s, r, action, feed, wo, checks)
      [] r.state = "ReadTraffic" -> on_ReadTraffic(s, r, action, checks)
      [] r.state = "PeerClosed" -> on_PeerClosed(s, r, checks)
      [] r.state = "Closed" -> on_Closed(s, r)
      [] OTHER -> Failed("UnexpectedState", s, r.conn))

\* One single-step advance under the intent `action`.
tls_state_machine_advance(s, c, action, feed, wo, checks) ==
    Dispatch(s, process_tls_records(c, curr_used_buf_as_ref(s.in_buffer), 0),
             action, feed, wo, checks)

\* The entry of each public operation: "return" with a result, or "loop".
complete_handshake_entry(s) == [go |-> "loop", self |-> s]

\* Variants of read_tls and write_tls without the check on entry.
read_tls_entry_unchecked(s) ==
    [go |-> "loop", self |-> [s EXCEPT !.status.received_response = FALSE]]

write_tls_entry_unchecked(s) == [go |-> "loop", self |-> s]

read_tls_entry(s) ==
    IF s.status.connection_closed \/ s.status.peer_closed
    THEN [go |-> "return", res |-> "Ok", self |-> s]
    ELSE [go |-> "loop", self |-> [s EXCEPT !.status.received_response = FALSE]]

write_tls_entry(s) ==
    IF s.status.connection_closed
    THEN [go |-> "return", res |-> "ConnectionClosed", self |-> s]
    ELSE [go |-> "loop", self |-> s]

close_tls_entry(s) == [go |-> "loop", self |-> s]

\* The loop condition of each public operation.
\* A loop condition with `||` for `&&`.
complete_handshake_continues_either(s) ==
    ~s.status.handshake_complete \/ ~s.status.connection_closed

complete_handshake_continues(s) ==
    ~s.status.handshake_complete /\ ~s.status.connection_closed

read_tls_continues(s) ==
    /\ ~s.status.received_response
    /\ ~s.status.connection_closed
    /\ ~s.status.peer_closed

\* A variant of close_tls that tests its condition after the step only.
close_tls_continues_always(s) == TRUE

close_tls_continues(s) == ~s.status.connection_closed

\* write_tls after its one step.
write_tls_result(s) == IF ~s.status.request_sent THEN "GenericError" ELSE "Ok"

\* ------------------------------------------------------------------------
\* The AEAD adapter (crypto_provider/aead.rs)
\* ------------------------------------------------------------------------
AES_GCM_OVERHEAD == 16
NONCE_LEN == 12
\* Largest plaintext fragment of a record (rustls' MAX_FRAGMENT_LEN, 16384,
\* scaled to the model).
MaxFragmentLen == 2
\* Longest plaintext handed to encrypt: one byte over the largest fragment.
MaxPlainLen == 3

RECURSIVE XorBits(_, _, _)
XorBits(a, b, n) ==
    IF n = 0 THEN 0
    ELSE (((a % 2) + (b % 2)) % 2) + 2 * XorBits(a \div 2, b \div 2, n - 1)
Xor8(a, b) == XorBits(a, b, 8)

\* Byte i (1 is the most significant) of the u64 seq; the model's sequence
\* numbers are below 2^31.
SeqByte(seq, i) ==
    IF i <= 4 THEN 0
    ELSE IF i = 5 THEN (seq \div 16777216) % 256
    ELSE IF i = 6 THEN (seq \div 65536) % 256
    ELSE IF i = 7 THEN (seq \div 256) % 256
    ELSE seq % 256

\* Nonce::new: the IV, its last eight bytes XORed with the big-endian seq.
Nonce_new(iv, seq) ==
    [i \in 1..NONCE_LEN |-> IF i <= 4 THEN iv[i] ELSE Xor8(iv[i], SeqByte(seq, i - 4))]
\* A variant of the nonce that leaves the sequence number out.
Nonce_without_seq(iv, seq) == iv

make_tls13_aad(payload_len) ==
    <<CT_APPDATA, 3, 3, (payload_len \div 256) % 256, payload_len % 256>>

\* A variant of encrypted_payload_len that forgets the content-type trailer.
encrypted_payload_len_without_trailer(payload_len) == payload_len + AES_GCM_OVERHEAD

encrypted_payload_len(payload_len) == payload_len + AES_GCM_OVERHEAD + 1

\* AES-128-GCM as an ideal AEAD under one key: a keystream that depends on
\* the nonce and the position, and a 16-byte tag that is a one-to-one
\* function of (nonce, aad, ciphertext) on the model's domain, which no
\* altered record carries.
Keystream(nonce, i) ==
    (7 * nonce[NONCE_LEN] + 3 * nonce[NONCE_LEN - 1] + nonce[1] + 13 * i + 1) % 256
GcmCrypt(nonce, buf) == [i \in 1..Len(buf) |-> Xor8(buf[i], Keystream(nonce, i))]
GcmTagInput(nonce, aad, ct, i) ==
    IF i = 1 THEN nonce[NONCE_LEN - 1]
    ELSE IF i = 2 THEN nonce[NONCE_LEN]
    ELSE IF i = 3 THEN aad[5]
    ELSE IF i - 3 <= Len(ct) THEN Xor8(ct[i - 3], 90) ELSE 0
\* The inputs laid out in the first half of the tag and, masked and in
\* reverse order, in the second: no two inputs share a tag, and no tag
\* with one byte changed is the tag of any input.
GcmTag(nonce, aad, ct) ==
    [i \in 1..AES_GCM_OVERHEAD |->
        IF 2 * i <= AES_GCM_OVERHEAD THEN GcmTagInput(nonce, aad, ct, i)
        ELSE Xor8(GcmTagInput(nonce, aad, ct, AES_GCM_OVERHEAD + 1 - i), 165)]

encrypt_in_place(nonce, aad, buf) ==
    GcmCrypt(nonce, buf) \o GcmTag(nonce, aad, GcmCrypt(nonce, buf))

decrypt_in_place(nonce, aad, buf) ==
    IF Len(buf) < AES_GCM_OVERHEAD THEN [ok |-> FALSE, buf |-> buf]
    ELSE IF SubSeqFrom(buf, Len(buf) - AES_GCM_OVERHEAD, AES_GCM_OVERHEAD)
              # GcmTag(nonce, aad, SubSeqFrom(buf, 0, Len(buf) - AES_GCM_OVERHEAD))
    THEN [ok |-> FALSE, buf |-> buf]
    ELSE [ok |-> TRUE,
          buf |-> GcmCrypt(nonce, SubSeqFrom(buf, 0, Len(buf) - AES_GCM_OVERHEAD))]

\* unpad_tls13_payload: drops the zero padding, then takes the last byte as
\* the content type; 0 stands for ContentType::Unknown(0).
RECURSIVE unpad_tls13_payload(_)
unpad_tls13_payload(p) ==
    IF Len(p) = 0 THEN [typ |-> 0, payload |-> <<>>]
    ELSE IF p[Len(p)] = 0 THEN unpad_tls13_payload(SubSeqFrom(p, 0, Len(p) - 1))
    ELSE [typ |-> p[Len(p)], payload |-> SubSeqFrom(p, 0, Len(p) - 1)]

into_tls13_unpadded_message(payload) ==
    IF Len(payload) > MaxFragmentLen + 1
    THEN [res |-> "PeerSentOversizedRecord", typ |-> 0, version |-> "-", payload |-> <<>>]
    ELSE IF unpad_tls13_payload(payload).typ = 0
    THEN [res |-> "IllegalTlsInnerPlaintext", typ |-> 0, version |-> "-", payload |-> <<>>]
    ELSE [res |-> "Ok", typ |-> unpad_tls13_payload(payload).typ, version |-> "TLSv1_3",
          payload |-> unpad_tls13_payload(payload).payload]

\* MessageEncrypter::encrypt of Tls13Cipher(key, iv): the opaque message,
\* with the capacity and the additional data the call used.
encrypt(iv, typ, payload, seq) ==
    [typ |-> CT_APPDATA, version |-> "TLSv1_2",
     payload |-> encrypt_in_place(Nonce_new(iv, seq),
                                  make_tls13_aad(encrypted_payload_len(Len(payload))),
                                  payload \o <<typ>>),
     capacity |-> encrypted_payload_len(Len(payload)),
     aad |-> make_tls13_aad(encrypted_payload_len(Len(payload))),
     nonce |-> Nonce_new(iv, seq)]

DecryptFailed == [res |-> "DecryptError", typ |-> 0, version |-> "-", payload |-> <<>>]

\* A variant of decrypt that builds the additional data from the length of
\* the plaintext the record holds.
decrypt_aad_of_plaintext(iv, payload, seq) ==
    IF decrypt_in_place(Nonce_new(iv, seq),
                        make_tls13_aad(Len(payload) - AES_GCM_OVERHEAD - 1), payload).ok
    THEN into_tls13_unpadded_message(
             decrypt_in_place(Nonce_new(iv, seq),
                              make_tls13_aad(Len(payload) - AES_GCM_OVERHEAD - 1), payload).buf)
    ELSE DecryptFailed

\* A variant of decrypt that derives its nonce from the IV alone.
decrypt_without_seq(iv, payload, seq) ==
    IF decrypt_in_place(iv, make_tls13_aad(Len(payload)), payload).ok
    THEN into_tls13_unpadded_message(
             decrypt_in_place(iv, make_tls13_aad(Len(payload)), payload).buf)
    ELSE DecryptFailed

\* MessageDecrypter::decrypt of Tls13Cipher(key, iv).
decrypt(iv, payload, seq) ==
    IF decrypt_in_place(Nonce_new(iv, seq), make_tls13_aad(Len(payload)), payload).ok
    THEN into_tls13_unpadded_message(
             decrypt_in_place(Nonce_new(iv, seq), make_tls13_aad(Len(payload)), payload).buf)
    ELSE DecryptFailed

\* ------------------------------------------------------------------------
\* State
\* ------------------------------------------------------------------------
VARIABLES
    tb,               \* a TlsBuffer driven through its API on its own
    last,             \* the last buffer call: operation, argument, buffer before, result
    panicked,         \* the program aborted in a panic
    overflow_checks,  \* the build: TRUE panics on integer overflow, FALSE wraps
    self,             \* the TlsConnection: status, in_buffer, out_buffer
    conn,             \* the protocol engine of the connection
    peer,             \* the transport and the peer behind it
    pc,               \* the public operation in progress, with its intent
    ev,               \* what the last action did
    pre,              \* the TlsConnection before the last action
    close_called,     \* the caller has invoked close_tls on this connection
    aead              \* a Tls13Cipher put through encrypt and decrypt on its own

bufvars == <<tb, last>>
connvars == <<self, conn, peer, pc, ev, pre, close_called>>
vars == <<tb, last, panicked, overflow_checks, self, conn, peer, pc, ev, pre, close_called, aead>>

\* Records the peer delivers (whole or broken) over a connection's life.
MaxInRecords == 5
\* Application records the client writes over a connection's life.
MaxOutRecords == 2
\* Largest caller buffer handed to read_tls.
MaxReadCap == 2

\* Plaintexts the peer sends, and the one the client writes.
PeerData == {<<1>>, <<1, 2>>}
WriteData == {<<7>>}

Idle == [op |-> "idle", action |-> Handshake, total_read |-> 0]
\* No transport read in the step.
NoFeed == [err |-> TRUE, good |-> FALSE, plain |-> <<>>, hdr |-> <<>>, body |-> <<>>]
NoEvent ==
    [kind |-> "init", op |-> "new", returned |-> FALSE, res |-> "Ok", n |-> 0,
     state |-> "-", discard |-> 0, engine |-> 0, reads |-> 0, writes |-> 0,
     wire |-> <<>>, copied |-> <<>>,
     encoded |-> <<>>,    \* bytes the engine encoded in the step (EncodeTlsData)
     rdiscard |-> 0,      \* discard count of the record handed over (ReadTraffic)
     step_res |-> "Ok",   \* what the single-step advance itself returned
     cap |-> 0,           \* length of the caller's buffer (read_tls)
     payload |-> <<>>,    \* payload of the record the engine handed over
     feed |-> NoFeed,     \* what the transport delivered to the step's reads
     wo |-> "none"]       \* how the transport took the step's write

Bytes == {0, 255}
\* In-range arguments, and those together with the ones near 2^64.
Args == 0..MaxArg
WideArgs == (-MaxWrap)..MaxArg

\* Base IVs, content types, plaintext bytes and sequence numbers of the
\* cipher on its own.
Ivs == {[i \in 1..NONCE_LEN |-> 0], [i \in 1..NONCE_LEN |-> 16 * i + 1]}
ContentTypes == {CT_ALERT, CT_HANDSHAKE, CT_APPDATA}
AeadSeqs == {0, 1, 256}
NoMessage ==
    [phase |-> "new", iv |-> <<>>, typ |-> 0, plain |-> <<>>, seq |-> 0,
     sealed |-> [typ |-> 0, version |-> "-", payload |-> <<>>, capacity |-> 0,
                 aad |-> <<>>, nonce |-> <<>>],
     payload |-> <<>>,     \* the opaque payload as it reaches decrypt
     tamper |-> "none",    \* what was done to it on the way
     dseq |-> 0,           \* the sequence number decrypt was given
     out |-> DecryptFailed]

NoCall == [op |-> "new", arg |-> 0, pre |-> TlsBuffer_new(BufCap), res |-> "Ok", len |-> 0]

InitConn ==
    /\ self = TlsConnection_new
    /\ conn = Engine_new
    /\ peer = [seq |-> 0,               \* records the peer sent and the client took
               count |-> 0,             \* record receives so far
               closed |-> FALSE,        \* the transport was closed
               closes |-> 0,            \* sock.close() calls so far
               last |-> <<>>,           \* plaintext of the last application record sent
               write_failed |-> FALSE,  \* a transport write has returned an error
               fatal |-> 0]             \* 1: a public operation has returned DecryptError
                                        \* or InvalidMessage; 2: and another has returned
    /\ pc = Idle
    /\ ev = NoEvent
    /\ pre = TlsConnection_new
    /\ close_called = FALSE

Init ==
    /\ tb = TlsBuffer_new(BufCap)
    /\ last = NoCall
    /\ panicked = FALSE
    /\ overflow_checks \in BOOLEAN
    /\ InitConn
    /\ aead = NoMessage

Called(op, n, r) ==
    /\ tb' = r.b
    /\ last' = [op |-> op, arg |-> n, pre |-> tb, res |-> r.res,
                len |-> IF "len" \in DOMAIN r THEN r.len ELSE 0]
    /\ panicked' = (r.res = "Panic")
    /\ UNCHANGED <<overflow_checks, connvars, aead>>

CallAdvanceUsed(S) ==
    /\ ~panicked
    /\ \E n \in S : Called("advance_used", n, advance_used(tb, n, overflow_checks))

CallMoveHead(S) ==
    /\ ~panicked
    /\ \E n \in S : Called("move_head", n, move_head(tb, n, overflow_checks))

CallResetUsed ==
    /\ ~panicked
    /\ Called("reset_used", 0, [res |-> "Ok", b |-> reset_used(tb)])

CallEnsureSpace(S) ==
    /\ ~panicked
    /\ \E n \in S : Called("ensure_space", n, ensure_space(tb, n))

\* free_mut(size) followed, when it succeeds, by the caller filling the slice.
CallFreeMut(S) ==
    /\ ~panicked
    /\ \E n \in S :
         LET r == mutable_slice_from_remaining(tb, n) IN
         IF r.res = "Ok"
         THEN \E data \in [1..n -> Bytes] :
                 Called("free_mut", n, [res |-> "Ok", b |-> WriteSlice(tb, data)])
         ELSE Called("free_mut", n, r)

\* extract_record_len_from_current_position takes &self: the buffer the call
\* leaves is the one it was given.
CallExtractRecordLen ==
    /\ ~panicked
    /\ \E x \in {extract_record_len_from_current_position(tb)} :
          Called("extract_record_len", 0, [res |-> x.res, b |-> tb, len |-> x.len])

NextBuf ==
    \/ CallAdvanceUsed(Args)
    \/ CallMoveHead(Args)
    \/ CallResetUsed
    \/ CallEnsureSpace(Args)
    \/ CallFreeMut(Args)

NextBufWide ==
    \/ CallAdvanceUsed(WideArgs)
    \/ CallMoveHead(WideArgs)
    \/ CallResetUsed
    \/ CallEnsureSpace(WideArgs)
    \/ CallFreeMut(WideArgs)

\* The buffer API called with arguments that cannot overflow usize.
SpecBuf == Init /\ [][NextBuf]_vars
\* The buffer API called with any usize argument.
SpecBufWide == Init /\ [][NextBufWide]_vars

\* Capacity of the buffers the length extraction is applied to.
ExtractCap == 7

\* Any buffer of that capacity, with any bytes behind tail; head is where
\* calls of any usize argument can have left it.
InitExtract ==
    /\ tb \in {[buf |-> d, head |-> h, tail |-> t] :
                 d \in [1..ExtractCap -> Bytes], h \in 0..ExtractCap, t \in 0..ExtractCap}
    /\ last = NoCall
    /\ panicked = FALSE
    /\ overflow_checks \in BOOLEAN
    /\ InitConn
    /\ aead = NoMessage

NextExtract == CallExtractRecordLen

\* extract_record_len_from_current_position applied to any buffer.
SpecExtract == InitExtract /\ [][NextExtract]_vars

\* Largest record payload before encryption (16 * 1024 in constant.rs,
\* scaled to the model).
MaxRecordLen == 3
CONTENT_TYPE == 1
AEAD_OVERHEAD == 16 + CONTENT_TYPE
\* A variant of the inbound capacity without room for the header.
IN_BUF_SIZE_without_header == MaxRecordLen + AEAD_OVERHEAD

IN_BUF_SIZE == MaxRecordLen + AEAD_OVERHEAD + HEADER_LEN

\* An inbound buffer of that capacity with nothing, or one byte, unconsumed
\* at any offset.
InitRecv ==
    /\ tb \in {[buf |-> [i \in 1..IN_BUF_SIZE |-> fill], head |-> h, tail |-> t] :
                 fill \in Bytes, t \in 0..IN_BUF_SIZE, h \in 0..IN_BUF_SIZE}
    /\ tb.head \in {tb.tail, tb.tail - 1}
    /\ last = NoCall
    /\ panicked = FALSE
    /\ overflow_checks \in BOOLEAN
    /\ InitConn
    /\ aead = NoMessage

\* recv_record_over_vsock with a transport that delivers a whole record of
\* any declared length up to one byte more than the capacity can hold.
CallRecvRecord ==
    /\ last.op = "new"
    /\ \E len \in 0..(MaxRecordLen + AEAD_OVERHEAD + 1) :
         \E r \in {recv_record_over_vsock(
                       tb,
                       [NoFeed EXCEPT !.err = FALSE, !.hdr = Header(CT_APPDATA, len),
                                      !.body = [i \in 1..len |-> 255]],
                       overflow_checks)} :
            Called("recv_record", len, [res |-> r.res, b |-> r.b])

NextRecv == CallRecvRecord

\* One record receive into an inbound buffer of the connection's capacity.
SpecRecv == InitRecv /\ [][NextRecv]_vars

\* ------------------------------------------------------------------------
\* The connection driven by a caller, against any peer
\* ------------------------------------------------------------------------
\* rec as the two reads deliver it; plain is the plaintext the peer sent in
\* it (application data only).
SplitRecord(rec, good, plain) ==
    [err |-> FALSE, good |-> good, plain |-> plain,
     hdr |-> SubSeqFrom(rec, 0, HEADER_LEN),
     body |-> SubSeqFrom(rec, HEADER_LEN, Len(rec) - HEADER_LEN)]

\* What the peer may answer to a record receive: a well-formed record of
\* each kind, a record with a wrong tag, a header declaring more than the
\* inbound buffer holds, an end of stream before or inside the header or
\* inside the payload, or a transport error.
Feeds ==
    {SplitRecord(Record(CT_HANDSHAKE, <<>>, peer.seq), TRUE, <<>>),
     SplitRecord(Record(CT_ALERT, <<>>, peer.seq), TRUE, <<>>),
     SplitRecord(Record(CT_APPDATA, <<1>>, peer.seq + 1), FALSE, <<>>)}
    \cup {SplitRecord(Record(CT_APPDATA, p, peer.seq), TRUE, p) : p \in PeerData}
    \cup {[NoFeed EXCEPT !.err = FALSE, !.hdr = Header(CT_APPDATA, 256)],
          [NoFeed EXCEPT !.err = FALSE],
          [NoFeed EXCEPT !.err = FALSE, !.hdr = <<CT_APPDATA, 3, 3>>],
          [NoFeed EXCEPT !.err = FALSE, !.hdr = Header(CT_APPDATA, 2), !.body = <<254>>],
          NoFeed}
WriteOutcomes == {"full", "short", "err"}

\* The errors of a record that fails to decrypt or to parse.
FatalErrors == {"DecryptError", "InvalidMessage"}

Returned(op, res, n) ==
    [NoEvent EXCEPT !.kind = "call", !.op = op, !.returned = TRUE, !.res = res, !.n = n]

\* A public operation is entered: it returns at once or starts its loop.
Enter(op, entry, continues, action) ==
    /\ pc.op = "idle"
    /\ ~peer.closed
    /\ pre' = self
    /\ close_called' = (close_called \/ op = "close_tls")
    /\ self' = entry.self
    /\ IF entry.go = "return"
       THEN /\ pc' = Idle
            /\ ev' = Returned(op, entry.res, 0)
            /\ peer' = [peer EXCEPT !.fatal = IF @ > 0 THEN 2 ELSE 0]
       ELSE IF ~continues
       THEN /\ pc' = Idle
            /\ ev' = Returned(op, "Ok", 0)
            /\ peer' = [peer EXCEPT !.fatal = IF @ > 0 THEN 2 ELSE 0]
       ELSE /\ pc' = [op |-> op, action |-> action, total_read |-> 0]
            /\ ev' = [NoEvent EXCEPT !.kind = "call", !.op = op]
            /\ peer' = peer
    /\ UNCHANGED <<conn, tb, last, panicked, overflow_checks, aead>>

CallCompleteHandshake ==
    Enter("complete_handshake", complete_handshake_entry(self),
          complete_handshake_continues(self), Handshake)

CallReadTls ==
    \E cap \in 0..MaxReadCap :
        Enter("read_tls", read_tls_entry(self),
              read_tls_continues(read_tls_entry(self).self), ReadRecord(cap))

\* Application records the engine has encrypted so far.
RecordsWritten == conn.wseq - FirstTrafficSeq - (IF conn.sent_close THEN 1 ELSE 0)

CallWriteTls ==
    /\ self.status.connection_closed \/ RecordsWritten < MaxOutRecords
    /\ \E data \in WriteData :
        Enter("write_tls", write_tls_entry(self), TRUE, WriteRecord(data))

CallCloseTls ==
    Enter("close_tls", close_tls_entry(self), close_tls_continues(self),
          CloseConnection)

\* Whether the operation in progress goes round its loop again after a
\* step that succeeded.
Continues(op, s) ==
    CASE op = "complete_handshake" -> complete_handshake_continues(s)
      [] op = "read_tls" -> read_tls_continues(s)
      [] op = "close_tls" -> close_tls_continues(s)
      [] OTHER -> FALSE

\* The step under way receives a record / writes to the transport.
Receives(state) ==
    \/ state = "BlockedHandshake" /\ pc.action.kind = "Handshake"
    \/ /\ state = "WriteTraffic"
       /\ \/ pc.action.kind = "ReadRecord"
          \/ pc.action.kind = "CloseConnection" /\ self.status.our_side_closed

Sends(state) ==
    \/ state = "TransmitTlsData" /\ pc.action.kind = "Handshake"
    \/ /\ state = "WriteTraffic"
       /\ \/ pc.action.kind = "WriteRecord"
          \/ pc.action.kind = "CloseConnection" /\ ~self.status.our_side_closed

\* What the operation in progress returns after a step that ended in res.
StepResult(res, s) ==
    IF res = "Ok" /\ pc.op = "write_tls" THEN write_tls_result(s) ELSE res

\* The step's outcome o becomes the next state.
StepDone(o, r, feed, wo, again) ==
    /\ pre' = self
    /\ self' = o.self
    /\ conn' = o.conn
    /\ peer' = [peer EXCEPT
                  !.count = IF o.reads > 0 THEN @ + 1 ELSE @,
                  !.seq = IF o.reads = 2 /\ o.res = "Ok" /\ feed.good
                          THEN @ + 1 ELSE @,
                  !.last = IF o.reads = 2 /\ o.res = "Ok" /\ feed.good
                              /\ feed.hdr[1] = CT_APPDATA
                           THEN feed.plain ELSE @,
                  !.write_failed = @ \/ (o.writes > 0 /\ wo = "err"),
                  !.fatal = IF again THEN @
                            ELSE IF @ > 0 THEN 2
                            ELSE IF StepResult(o.res, o.self) \in FatalErrors THEN 1
                            ELSE 0]
    /\ pc' = IF again THEN [pc EXCEPT !.total_read = @ + Len(o.copied)] ELSE Idle
    /\ ev' = [kind |-> "step", op |-> pc.op, returned |-> ~again,
              res |-> StepResult(o.res, o.self),
              n |-> IF StepResult(o.res, o.self) = "Ok"
                    THEN pc.total_read + Len(o.copied) ELSE 0,
              state |-> r.state, discard |-> r.discard, engine |-> 1,
              reads |-> o.reads, writes |-> o.writes, wire |-> o.wire,
              copied |-> o.copied,
              encoded |-> IF r.state = "EncodeTlsData" /\ o.res = "Ok"
                          THEN r.chunk ELSE <<>>,
              rdiscard |-> IF r.state = "ReadTraffic" THEN r.record.discard ELSE 0,
              step_res |-> o.res,
              cap |-> pc.action.cap,
              payload |-> IF r.state = "ReadTraffic" THEN r.record.payload ELSE <<>>,
              feed |-> IF o.reads > 0 THEN feed ELSE NoFeed,
              wo |-> IF o.writes > 0 THEN wo ELSE "none"]

\* A loop that goes on after a step that failed.
StepOutcome_retrying(o, r, feed, wo) ==
    StepDone(o, r, feed, wo, Continues(pc.op, o.self))

\* The `?` on the step and the loop condition.
StepOutcome(o, r, feed, wo) ==
    StepDone(o, r, feed, wo, o.res = "Ok" /\ Continues(pc.op, o.self))

\* r is what the engine reports in this step.
StepIn(r) ==
    /\ Receives(r.state) => peer.count < MaxInRecords
    /\ \E feed \in IF Receives(r.state) THEN Feeds ELSE {NoFeed},
          wo \in IF Sends(r.state) THEN WriteOutcomes ELSE {"full"} :
         StepOutcome(tls_state_machine_advance(self, conn, pc.action, feed, wo,
                                               overflow_checks),
                     r, feed, wo)

\* One iteration of the loop of the operation in progress: a single-step
\* advance, then the `?` and the loop condition.
Step ==
    /\ pc.op # "idle"
    /\ StepIn(process_tls_records(conn, curr_used_buf_as_ref(self.in_buffer), 0))
    /\ UNCHANGED <<tb, last, panicked, overflow_checks, close_called, aead>>

\* Variant: a drop that first says goodbye, as close_tls would.
drop_graceful(s, c) ==
    IF s.status.connection_closed
    THEN [self |-> s, conn |-> c, closes |-> 1, engine |-> 0, writes |-> 0, wire |-> <<>>]
    ELSE [self |-> MarkOurSideClosed(s), conn |-> [c EXCEPT !.sent_close = TRUE],
          closes |-> 1, engine |-> 1, writes |-> 1,
          wire |-> Record(CT_ALERT, <<>>, c.wseq)]

\* drop(&mut self): sock.close() and nothing else; its error is only logged.
drop(s, c) ==
    [self |-> s, conn |-> c, closes |-> 1, engine |-> 0, writes |-> 0, wire |-> <<>>]

\* d is what drop did to the connection s with engine c.
Dropped(d) ==
    /\ pre' = self
    /\ self' = d.self
    /\ conn' = d.conn
    /\ peer' = [peer EXCEPT !.closed = TRUE, !.closes = @ + d.closes]
    /\ ev' = [NoEvent EXCEPT !.kind = "drop", !.op = "drop", !.engine = d.engine,
                             !.writes = d.writes, !.wire = d.wire]

\* The connection goes out of scope: a value is dropped once, and not
\* while one of its methods runs.
Drop ==
    /\ pc.op = "idle"
    /\ ~peer.closed
    /\ Dropped(drop(self, conn))
    /\ UNCHANGED <<pc, close_called, tb, last, panicked, overflow_checks, aead>>

Next ==
    \/ CallCompleteHandshake
    \/ CallReadTls
    \/ CallWriteTls
    \/ CallCloseTls
    \/ Step
    \/ Drop

Spec == Init /\ [][Next]_vars

\* ------------------------------------------------------------------------
\* The connection against an engine that may report any state at any step
\* (the dispatch of tls_state_machine_advance on its own)
\* ------------------------------------------------------------------------
\* States such an engine reports over a connection's life.
MaxAnyEngineReports == 2

\* Every report the engine's interface allows on the bytes the inbound
\* buffer holds: any state, nothing or everything consumed.
EngineReports ==
    {[state |-> st, discard |-> d, conn |-> [conn EXCEPT !.reports = @ + 1],
      chunk |-> ClientHello, err |-> "InvalidMessage",
      record |-> [discard |-> 0, payload |-> <<1, 2>>]] :
        st \in {"Err", "EncodeTlsData", "TransmitTlsData", "BlockedHandshake",
                "WriteTraffic", "ReadTraffic", "PeerClosed", "Closed"},
        d \in {0, self.in_buffer.tail - self.in_buffer.head}}

StepAnyEngineIn(r) ==
    /\ conn.reports < MaxAnyEngineReports
    /\ \E feed \in IF Receives(r.state) THEN Feeds ELSE {NoFeed},
          wo \in IF Sends(r.state) THEN WriteOutcomes ELSE {"full"} :
         StepOutcome(Dispatch(self, r, pc.action, feed, wo, overflow_checks),
                     r, feed, wo)

\* One iteration of the loop of the operation in progress, whatever the
\* engine reports.
StepAnyEngine ==
    /\ pc.op # "idle"
    /\ \E r \in EngineReports : StepAnyEngineIn(r)
    /\ UNCHANGED <<tb, last, panicked, overflow_checks, close_called, aead>>

NextAnyEngine ==
    \/ CallCompleteHandshake
    \/ CallReadTls
    \/ CallWriteTls
    \/ CallCloseTls
    \/ StepAnyEngine
    \/ Drop

SpecAnyEngine == Init /\ [][NextAnyEngine]_vars

\* ------------------------------------------------------------------------
\* The connection with a cooperative peer over a transport whose reads and
\* writes always complete
\* ------------------------------------------------------------------------
\* What a cooperative peer sends when the client reads: its handshake
\* flight while the handshake lasts, then application records and, at the
\* latest as its MaxInRecords-th record, its close_notify; nothing but the
\* end of the stream after that.
LiveFeeds ==
    IF conn.recv_close THEN {[NoFeed EXCEPT !.err = FALSE]}
    ELSE IF conn.handshaking
    THEN {SplitRecord(Record(CT_HANDSHAKE, <<>>, peer.seq), TRUE, <<>>)}
    ELSE {SplitRecord(Record(CT_ALERT, <<>>, peer.seq), TRUE, <<>>)}
         \cup IF peer.count + 1 >= MaxInRecords THEN {}
              ELSE {SplitRecord(Record(CT_APPDATA, p, peer.seq), TRUE, p) : p \in PeerData}

StepLiveIn(r) ==
    \E feed \in IF Receives(r.state) THEN LiveFeeds ELSE {NoFeed} :
        \E o \in {tls_state_machine_advance(self, conn, pc.action, feed, "full",
                                            overflow_checks)} :
            StepOutcome(o, r, feed, "full")

\* One iteration of the loop of the operation in progress.
StepLive ==
    /\ pc.op # "idle"
    /\ \E r \in {process_tls_records(conn, curr_used_buf_as_ref(self.in_buffer), 0)} :
           StepLiveIn(r)
    /\ UNCHANGED <<tb, last, panicked, overflow_checks, close_called, aead>>

NextLive ==
    \/ CallCompleteHandshake
    \/ CallReadTls
    \/ CallWriteTls
    \/ CallCloseTls
    \/ StepLive
    \/ Drop

\* The code is synchronous and single-threaded: an operation in progress
\* goes on with its next step as soon as the transport has answered.
SpecLive == Init /\ [][NextLive]_vars /\ WF_vars(StepLive)

\* ------------------------------------------------------------------------
\* Claims about the record buffer
\* ------------------------------------------------------------------------
UsedLen(b) == b.tail - b.head
\* The free bytes of a buffer: capacity - (tail - head).
FreeLen(b) == Capacity(b) - UsedLen(b)
\* The last call was ensure_space, it went on to compact and it returned.
EnsureSpaceCompacted ==
    /\ last.op = "ensure_space"
    /\ ULt(Capacity(last.pre) - last.pre.tail, last.arg)
    /\ last.res # "Panic"

\* C1: after any sequence of advance_used, move_head, reset_used and
\* ensure_space calls with any arguments, 0 <= head <= tail <= N.
C1_BufferInvariant ==
    /\ 0 <= tb.head
    /\ tb.head <= tb.tail
    /\ tb.tail <= Capacity(tb)

\* C2: ensure_space(n) succeeds, and a free_mut(n) right after it succeeds,
\* whenever n <= capacity - (tail - head); ensure_space(n) fails with
\* BufferTooSmall exactly when n > capacity - (tail - head).
C2_EnsureSpaceThenFreeMut ==
    last.op = "ensure_space" =>
        /\ ~UGt(last.arg, FreeLen(last.pre)) =>
               /\ last.res = "Ok"
               /\ mutable_slice_from_remaining(tb, last.arg).res = "Ok"
        /\ last.res = "BufferTooSmall" <=> UGt(last.arg, FreeLen(last.pre))

\* C3: when ensure_space compacts, the used region afterwards holds the
\* bytes it held before, now at [0, tail - head): head = 0 and
\* tail = old tail - old head.
C3_CompactionPreservesContent ==
    EnsureSpaceCompacted =>
        /\ tb.head = 0
        /\ tb.tail = last.pre.tail - last.pre.head
        /\ curr_used_buf_as_ref(tb) = curr_used_buf_as_ref(last.pre)

\* A compaction that moved at least two bytes of different value.
C3_Witness ==
    /\ EnsureSpaceCompacted
    /\ last.pre.head > 0
    /\ UsedLen(last.pre) >= 2
    /\ last.pre.buf[last.pre.head + 1] # last.pre.buf[last.pre.head + 2]
    /\ last.pre.buf[1] # last.pre.buf[last.pre.head + 1]

\* C4: ensure_space(needed) with capacity - tail >= needed changes nothing
\* (head, tail, bytes); ensure_space moves head to 0 only when
\* capacity - tail < needed.
C4_NoNeedlessCompaction ==
    last.op = "ensure_space" =>
        /\ ~ULt(Capacity(last.pre) - last.pre.tail, last.arg) =>
               tb = last.pre /\ last.res = "Ok"
        /\ (last.pre.head # 0 /\ tb.head = 0) =>
               ULt(Capacity(last.pre) - last.pre.tail, last.arg)

\* ensure_space found room behind tail in a buffer that could be compacted.
C4_Witness ==
    /\ last.op = "ensure_space"
    /\ last.pre.head > 0
    /\ last.arg > 0
    /\ BufCap - last.pre.tail >= last.arg
    /\ tb = last.pre

\* ------------------------------------------------------------------------
\* Claims about the connection's closing flags
\* ------------------------------------------------------------------------
\* The last action was a call of op that found connection_closed set.
CalledWhenClosed(op) ==
    ev.kind = "call" /\ ev.op = op /\ pre.status.connection_closed

\* The last action ran no engine step and did no transport I/O.
NoStepNoIO == ev.engine = 0 /\ ev.reads = 0 /\ ev.writes = 0

\* C5: read_tls on a connection whose connection_closed is set returns 0
\* without invoking the engine and without a transport read or write, and
\* leaves the flags and both buffers as they were.
C5_ReadOnClosed ==
    CalledWhenClosed("read_tls") =>
        /\ ev.returned /\ pc = Idle
        /\ ev.res = "Ok" /\ ev.n = 0
        /\ NoStepNoIO
        /\ self = pre

\* read_tls called on a closed connection that had received a response.
C5_Witness ==
    CalledWhenClosed("read_tls") /\ pre.status.received_response

\* C6: write_tls on a connection whose connection_closed is set fails with
\* ConnectionClosed without invoking the engine or the transport, whatever
\* request_sent is.
C6_WriteOnClosed ==
    CalledWhenClosed("write_tls") =>
        /\ ev.returned /\ pc = Idle
        /\ ev.res = "ConnectionClosed"
        /\ NoStepNoIO
        /\ self = pre

\* write_tls called on a closed connection on which a request had been sent.
C6_Witness ==
    CalledWhenClosed("write_tls") /\ pre.status.request_sent

\* C7: once connection_closed is set no public operation performs a step,
\* a transport read or a transport write, no operation stays in progress,
\* and connection_closed is never reset.
C7_ClosedIsFinal ==
    /\ pre.status.connection_closed =>
           /\ NoStepNoIO
           /\ self.status.connection_closed
    /\ self.status.connection_closed => pc = Idle

\* close_tls called again on a connection that is already closed.
C7_Witness ==
    CalledWhenClosed("close_tls") /\ ev.returned

\* C8: handshake_complete, once set, is set after every later action,
\* whether the step failed or set one of the closing flags.
C8_HandshakeCompleteMonotonic ==
    pre.status.handshake_complete => self.status.handshake_complete

\* The step that closed a connection whose handshake had completed.
C8_Witness ==
    /\ ev.kind = "step" /\ ev.state = "Closed"
    /\ pre.status.handshake_complete
    /\ ~pre.status.connection_closed /\ self.status.connection_closed

\* C9: peer_closed and our_side_closed are independent: an action that sets
\* one of them leaves the other as it was, and neither is ever cleared.
C9_HalfClosesIndependent ==
    /\ (self.status.peer_closed # pre.status.peer_closed) =>
           /\ self.status.peer_closed
           /\ self.status.our_side_closed = pre.status.our_side_closed
    /\ (self.status.our_side_closed # pre.status.our_side_closed) =>
           /\ self.status.our_side_closed
           /\ self.status.peer_closed = pre.status.peer_closed

\* The step that sent close_notify while the peer had not closed: our side
\* closed, the peer's side open, connection_closed false.
C9_Witness ==
    /\ ev.kind = "step" /\ ev.op = "close_tls"
    /\ ~pre.status.our_side_closed /\ self.status.our_side_closed
    /\ ~self.status.peer_closed
    /\ ~self.status.connection_closed

\* C10: a PeerClosed step only discards the consumed inbound bytes and sets
\* peer_closed: no transport read or write, no other flag and no outbound
\* byte changes; a read_tls in progress returns 0; and connection_closed is
\* set only on a connection whose caller has invoked close_tls.
C10_PeerClosedStep ==
    /\ (ev.kind = "step" /\ ev.state = "PeerClosed") =>
           /\ ev.reads = 0 /\ ev.writes = 0
           /\ self.status = [pre.status EXCEPT !.peer_closed = TRUE]
           /\ self.out_buffer = pre.out_buffer
           /\ self.in_buffer.buf = pre.in_buffer.buf
           /\ self.in_buffer.tail = pre.in_buffer.tail
           /\ self.in_buffer.head =
                  Min(pre.in_buffer.head + ev.discard, pre.in_buffer.tail)
           /\ ev.op = "read_tls" => ev.returned /\ ev.res = "Ok" /\ ev.n = 0
    /\ self.status.connection_closed => close_called

\* A read_tls met the peer's close_notify before the caller ever closed:
\* the peer's side closed, our side open, connection_closed false.
C10_Witness ==
    /\ ev.kind = "step" /\ ev.state = "PeerClosed" /\ ev.op = "read_tls"
    /\ ev.discard > 0
    /\ ~pre.status.peer_closed /\ self.status.peer_closed
    /\ ~self.status.our_side_closed
    /\ ~self.status.connection_closed
    /\ ~close_called

\* ------------------------------------------------------------------------
\* Claims about the public operations
\* ------------------------------------------------------------------------
\* The last action was a step of op in which the engine reported state.
StepOf(op, state) == ev.kind = "step" /\ ev.op = op /\ ev.state = state

\* C11: after a handshake and a write, a read_tls whose buffer is at least
\* as long as the record the peer sent returns exactly the bytes the peer
\* sent, and afterwards request_sent, received_response and
\* handshake_complete are all set (request_sent is set by every write_tls
\* that returns Ok and never cleared).
C11_WriteThenReadEcho ==
    /\ (StepOf("read_tls", "ReadTraffic") /\ ev.step_res = "Ok") =>
           /\ ev.returned /\ ev.res = "Ok"
           /\ ev.cap >= Len(peer.last) =>
                  /\ ev.copied = peer.last
                  /\ ev.n = Len(peer.last)
           /\ self.status.received_response
           /\ self.status.handshake_complete
    /\ (ev.op = "write_tls" /\ ev.returned /\ ev.res = "Ok") =>
           self.status.request_sent
    /\ pre.status.request_sent => self.status.request_sent

\* The conversation of test_tls: handshake, a write that went through, and
\* the read that returns the peer's two-byte answer.
C11_Witness ==
    /\ StepOf("read_tls", "ReadTraffic") /\ ev.returned /\ ev.res = "Ok"
    /\ peer.last = <<1, 2>> /\ ev.copied = <<1, 2>> /\ ev.n = 2
    /\ self.status.handshake_complete
    /\ self.status.request_sent
    /\ self.status.received_response
    /\ ~self.status.peer_closed /\ ~close_called /\ ~peer.write_failed

\* C12: write_tls performs exactly one single-step advance, and returns Ok
\* only if in that step the engine was ready for application traffic and
\* the caller's data was encrypted and written to the transport; in every
\* other case it returns an error.
C12_WriteOkOnlyIfSent ==
    (ev.kind = "step" /\ ev.op = "write_tls") =>
        /\ ev.returned
        /\ ev.res = "Ok" => (ev.state = "WriteTraffic" /\ ev.writes = 1)

\* C13: a read_tls call pulls at most one application-data record from the
\* engine; the count n it returns satisfies n <= len(buf) and
\* n <= the record's payload length, and buf[0..n) holds the first n
\* payload bytes; a read that pulled no record returns 0.
C13_ReadAtMostOneRecord ==
    /\ pc.op = "read_tls" => pc.total_read = 0
    /\ (StepOf("read_tls", "ReadTraffic") /\ ev.step_res = "Ok") =>
           /\ ev.returned /\ ev.res = "Ok"
           /\ ev.n = Len(ev.copied)
           /\ ev.n <= ev.cap
           /\ ev.n <= Len(ev.payload)
           /\ ev.copied = SubSeqFrom(ev.payload, 0, ev.n)
    /\ (ev.kind = "step" /\ ev.op = "read_tls" /\ ev.returned /\ ev.res = "Ok"
          /\ ev.state # "ReadTraffic") =>
           ev.n = 0 /\ ev.copied = <<>>

\* A short read: a two-byte record read into a one-byte buffer.
C13_Witness ==
    /\ StepOf("read_tls", "ReadTraffic") /\ ev.returned /\ ev.res = "Ok"
    /\ ev.cap = 1 /\ ev.payload = <<1, 2>>
    /\ ev.n = 1 /\ ev.copied = <<1>>

\* C14: complete_handshake returns Ok only with handshake_complete or
\* connection_closed set, close_tls returns Ok only with connection_closed
\* set, and neither runs a step once its exit condition holds.
C14_LoopExit ==
    /\ (ev.op = "complete_handshake" /\ ev.returned /\ ev.res = "Ok") =>
           (self.status.handshake_complete \/ self.status.connection_closed)
    /\ (ev.op = "close_tls" /\ ev.returned /\ ev.res = "Ok") =>
           self.status.connection_closed
    /\ (ev.kind = "step" /\ ev.op = "complete_handshake") =>
           (~pre.status.handshake_complete /\ ~pre.status.connection_closed)
    /\ (ev.kind = "step" /\ ev.op = "close_tls") => ~pre.status.connection_closed

\* The step that completes the handshake ends complete_handshake with Ok.
C14_Witness ==
    /\ ev.kind = "step" /\ ev.op = "complete_handshake"
    /\ ev.returned /\ ev.res = "Ok"
    /\ ~pre.status.handshake_complete /\ self.status.handshake_complete

\* The last step put a close_notify record on the wire.
AlertOnWire == ev.wire # <<>> /\ ev.wire[1] = CT_ALERT

\* C15: as long as no transport write has failed, close_notify is queued
\* and transmitted at most once: only in a WriteTraffic step under the
\* close intent with our_side_closed false, the step in which
\* our_side_closed becomes true; a later close step in WriteTraffic only
\* receives.
C15_CloseNotifyOnce ==
    ~peer.write_failed =>
        /\ AlertOnWire =>
               /\ StepOf("close_tls", "WriteTraffic")
               /\ ~pre.status.our_side_closed /\ self.status.our_side_closed
        /\ (self.status.our_side_closed /\ ~pre.status.our_side_closed) =>
               AlertOnWire /\ StepOf("close_tls", "WriteTraffic")
        /\ conn.sent_close = self.status.our_side_closed
        /\ (StepOf("close_tls", "WriteTraffic") /\ pre.status.our_side_closed) =>
               ev.writes = 0 /\ ev.wire = <<>>

\* A close step in WriteTraffic after close_notify went out: it received a
\* record from the transport and wrote nothing.
C15_Witness ==
    /\ ~peer.write_failed
    /\ StepOf("close_tls", "WriteTraffic")
    /\ pre.status.our_side_closed
    /\ ev.reads = 2 /\ ev.step_res = "Ok"

\* The last step met an engine state its intent does not go with.
IntentMismatch ==
    /\ ev.kind = "step"
    /\ \/ /\ ev.state \in {"EncodeTlsData", "TransmitTlsData", "BlockedHandshake"}
          /\ ev.op # "complete_handshake"
       \/ ev.state = "WriteTraffic" /\ ev.op = "complete_handshake"
       \/ ev.state = "ReadTraffic" /\ ev.op # "read_tls"

\* C16: a step fails with UnexpectedState, does no transport I/O and
\* changes no status flag when the engine state is EncodeTlsData,
\* TransmitTlsData or BlockedHandshake and the intent is not the handshake,
\* when it is WriteTraffic and the intent is the handshake, or when it is
\* ReadTraffic and the intent is not a read.
C16_IntentMismatch ==
    IntentMismatch =>
        /\ ev.step_res = "UnexpectedState"
        /\ ev.returned /\ ev.res = "UnexpectedState"
        /\ ev.reads = 0 /\ ev.writes = 0
        /\ self.status = pre.status

\* complete_handshake met an engine that is ready for application traffic.
C16_Witness ==
    /\ StepOf("complete_handshake", "WriteTraffic")
    /\ ev.step_res = "UnexpectedState"

\* The last step read fewer than HEADER_LEN bytes where a header was due.
ShortHeaderRead ==
    /\ ev.kind = "step"
    /\ ev.reads = 1
    /\ ~ev.feed.err
    /\ Len(ev.feed.hdr) < HEADER_LEN

\* C17: when the read of the record header delivers fewer than 5 bytes the
\* step fails with IncompleteRead, the operation in progress returns that
\* error, and the inbound buffer's tail is not advanced over the bytes read:
\* its used region is what was left of it once the engine's discard was
\* applied.
C17_ShortHeaderIsIncompleteRead ==
    ShortHeaderRead =>
        /\ ev.step_res = "IncompleteRead"
        /\ ev.returned /\ ev.res = "IncompleteRead"
        /\ self.in_buffer.tail <= pre.in_buffer.tail
        /\ curr_used_buf_as_ref(self.in_buffer)
             = curr_used_buf_as_ref(move_head(pre.in_buffer, ev.discard, overflow_checks).b)

\* A read_tls whose header read ended after three bytes.
C17_Witness ==
    /\ StepOf("read_tls", "WriteTraffic")
    /\ ShortHeaderRead
    /\ Len(ev.feed.hdr) = 3
    /\ ev.step_res = "IncompleteRead"

\* The last step read a whole header that declares more payload than the
\* inbound buffer can ever hold.
OversizeHeaderRead ==
    /\ ev.kind = "step"
    /\ ev.reads = 1
    /\ ~ev.feed.err
    /\ ev.feed.hdr = Header(CT_APPDATA, 256)

\* The inbound buffer just after the header of the last step's record was
\* committed: move_head(discard), ensure_space(HEADER_LEN), the read,
\* advance_used(HEADER_LEN).
AfterHeaderCommit ==
    advance_used(
        WriteSlice(ensure_space(move_head(pre.in_buffer, ev.discard, overflow_checks).b,
                                HEADER_LEN).b,
                   ev.feed.hdr),
        HEADER_LEN, overflow_checks).b

\* C18: when a record's header declares a payload that does not fit the
\* inbound buffer, the receive fails with BufferTooSmall and the buffer's
\* head, tail and contents are those it had just after the 5 header bytes
\* were committed, whatever head was before.
C18_OversizeLeavesHeaderState ==
    OversizeHeaderRead =>
        /\ ev.step_res = "BufferTooSmall"
        /\ self.in_buffer = AfterHeaderCommit

\* C19: a step that ends in an error ends the public operation it belongs
\* to: the operation returns that same error at once, and no further step
\* (hence no further transport I/O) is made in that call.
C19_StepErrorReturned ==
    (ev.kind = "step" /\ ev.step_res # "Ok") =>
        /\ ev.returned
        /\ ev.res = ev.step_res
        /\ pc = Idle

\* close_tls, still not closed, met a transport error in its step.
C19_Witness ==
    /\ StepOf("close_tls", "WriteTraffic")
    /\ ev.step_res = "IoError"
    /\ ~self.status.connection_closed
    /\ ev.returned

\* The transport took fewer bytes than the last step handed it.
ShortWrite ==
    /\ ev.kind = "step"
    /\ ev.writes = 1
    /\ ev.wo = "short"

\* C20: a step whose transport write is short fails with an error, and it
\* sets none of request_sent, our_side_closed and handshake_complete.
C20_ShortWriteIsFatal ==
    ShortWrite =>
        /\ ev.step_res # "Ok"
        /\ self.status.request_sent = pre.status.request_sent
        /\ self.status.our_side_closed = pre.status.our_side_closed
        /\ self.status.handshake_complete = pre.status.handshake_complete

\* C21: dropping a connection closes the transport exactly once, invokes
\* the engine not at all and queues or transmits nothing, whatever the
\* connection's state, closed or not.
C21_DropClosesTransportOnly ==
    ev.kind = "drop" =>
        /\ peer.closed /\ peer.closes = 1
        /\ ev.engine = 0
        /\ ev.writes = 0 /\ ev.reads = 0 /\ ev.wire = <<>>
        /\ self = pre

\* A connection dropped after its handshake with neither side closed.
C21_Witness ==
    /\ ev.kind = "drop"
    /\ self.status.handshake_complete
    /\ ~self.status.connection_closed
    /\ ~self.status.our_side_closed

\* C22: with a cooperative peer and a transport whose reads and writes
\* always complete, every public call returns: complete_handshake, read_tls,
\* write_tls and close_tls each come back after finitely many steps.
C22_PublicCallsTerminate == (pc.op # "idle") ~> (pc.op = "idle")

\* close_tls came back with Ok after the peer's close_notify was received.
C22_Witness ==
    /\ ev.kind = "step" /\ ev.op = "close_tls"
    /\ ev.returned /\ ev.res = "Ok"
    /\ conn.recv_close /\ conn.sent_close

\* ------------------------------------------------------------------------
\* The AEAD adapter on its own: one record sealed, perhaps altered, opened
\* ------------------------------------------------------------------------
AeadEncrypt ==
    /\ aead.phase = "new"
    /\ \E iv \in Ivs, typ \in ContentTypes, n \in 0..MaxPlainLen, seq \in AeadSeqs :
         \E p \in [1..n -> Bytes] :
            aead' = [aead EXCEPT !.phase = "sealed", !.iv = iv, !.typ = typ, !.plain = p,
                                 !.seq = seq, !.sealed = encrypt(iv, typ, p, seq),
                                 !.payload = encrypt(iv, typ, p, seq).payload]
    /\ UNCHANGED <<tb, last, panicked, overflow_checks, connvars>>

\* One byte of the opaque payload replaced by another value.
AeadTamperByte ==
    /\ aead.phase = "sealed"
    /\ \E i \in 1..Len(aead.payload), flip \in {1, 128} :
         aead' = [aead EXCEPT !.phase = "tampered", !.tamper = "byte",
                              !.payload[i] = Xor8(@, flip)]
    /\ UNCHANGED <<tb, last, panicked, overflow_checks, connvars>>

\* The opaque payload cut short or extended.
AeadTamperLength ==
    /\ aead.phase = "sealed"
    /\ \E n \in {Len(aead.payload) - 2, Len(aead.payload) - 1, Len(aead.payload) + 1,
                 AES_GCM_OVERHEAD - 1}, fill \in Bytes :
         aead' = [aead EXCEPT !.phase = "tampered", !.tamper = "length",
                              !.payload = [i \in 1..n |-> IF i <= Len(aead.payload)
                                                          THEN aead.payload[i] ELSE fill]]
    /\ UNCHANGED <<tb, last, panicked, overflow_checks, connvars>>

AeadDecrypt ==
    /\ aead.phase \in {"sealed", "tampered"}
    /\ \E dseq \in AeadSeqs :
         aead' = [aead EXCEPT !.phase = "opened", !.dseq = dseq,
                              !.out = decrypt(aead.iv, aead.payload, dseq)]
    /\ UNCHANGED <<tb, last, panicked, overflow_checks, connvars>>

NextAead ==
    \/ AeadEncrypt
    \/ AeadTamperByte
    \/ AeadTamperLength
    \/ AeadDecrypt

SpecAead == Init /\ [][NextAead]_vars

\* C23: for every plaintext length L the opaque payload encrypt returns
\* has L + 1 + 16 bytes, and that is the value encrypted_payload_len(L)
\* returns, with which encrypt sized its buffer and built its additional
\* data.
C23_EncryptedLength ==
    aead.phase # "new" =>
        /\ Len(aead.sealed.payload) = Len(aead.plain) + 1 + 16
        /\ encrypted_payload_len(Len(aead.plain)) = Len(aead.sealed.payload)
        /\ aead.sealed.capacity = Len(aead.sealed.payload)
        /\ aead.sealed.aad = <<23, 3, 3, Len(aead.sealed.payload) \div 256,
                               Len(aead.sealed.payload) % 256>>

C23_Witness == aead.phase = "sealed" /\ Len(aead.plain) = MaxPlainLen

\* An untouched record opened with the sequence number it was sealed with.
RoundTrip ==
    /\ aead.phase = "opened"
    /\ aead.tamper = "none"
    /\ aead.dseq = aead.seq

\* C24: decrypt(encrypt(P, seq), seq) returns P with P's content type, for
\* every sequence number and every plaintext length from 0 to the largest
\* fragment; both sides use the same nonce and the same additional data.
C24_RoundTrip ==
    (RoundTrip /\ Len(aead.plain) <= MaxFragmentLen) =>
        /\ aead.out.res = "Ok"
        /\ aead.out.payload = aead.plain
        /\ aead.out.typ = aead.typ
        /\ Nonce_new(aead.iv, aead.dseq) = aead.sealed.nonce
        /\ make_tls13_aad(Len(aead.payload)) = aead.sealed.aad

C24_Witness ==
    /\ RoundTrip
    /\ Len(aead.plain) = MaxFragmentLen
    /\ aead.seq = 256
    /\ aead.plain[MaxFragmentLen] = 0
    /\ aead.out.res = "Ok"

\* C25: a record with one byte changed, with its length changed, or opened
\* with another sequence number fails with DecryptError; decrypt never
\* succeeds with a plaintext other than the one encrypted.
C25_TamperDetected ==
    aead.phase = "opened" =>
        /\ (aead.tamper # "none" \/ aead.dseq # aead.seq) => aead.out.res = "DecryptError"
        /\ aead.out.res = "Ok" => (aead.out.payload = aead.plain /\ aead.out.typ = aead.typ)

C25_Witness ==
    /\ aead.phase = "opened"
    /\ aead.tamper = "byte"
    /\ aead.dseq = aead.seq
    /\ aead.out.res = "DecryptError"

\* ------------------------------------------------------------------------
\* Claims about the handshake's outbound path and the record receive
\* ------------------------------------------------------------------------
\* The last action set handshake_complete.
HandshakeCompleted == ~pre.status.handshake_complete /\ self.status.handshake_complete

\* C26: handshake_complete is set only in a TransmitTlsData step under
\* handshake intent, after the outbound buffer was written to the transport
\* and reset and done() was signalled, and only if the engine then reports
\* that handshaking has ended; the outbound buffer is empty (head = tail =
\* 0) in the state where the flag first is true.
C26_HandshakeCompleteSetInTransmit ==
    HandshakeCompleted =>
        /\ ev.kind = "step" /\ ev.state = "TransmitTlsData"
        /\ ev.op = "complete_handshake"
        /\ ev.step_res = "Ok"
        /\ ev.writes = 1 /\ ev.wo # "err"
        /\ ~conn.wants_write
        /\ ~conn.handshaking
        /\ self.out_buffer.head = 0 /\ self.out_buffer.tail = 0

C26_Witness ==
    /\ HandshakeCompleted
    /\ ev.state = "TransmitTlsData" /\ ev.wo = "full"
    /\ pre.out_buffer.tail > 0
    /\ ev.wire = SubSeqFrom(pre.out_buffer.buf, 0, pre.out_buffer.tail)

\* C27: during the handshake, with no transport error, the bytes written to
\* the transport are the concatenation, in order, of the bytes the engine
\* encoded: an encode step appends what the engine wrote to the outbound
\* buffer and does no transport I/O, and a transmit step writes the whole
\* used region, all the steps before it encoded, and leaves nothing of it
\* behind, so that every encoded byte is transmitted exactly once.
C27_HandshakeBytesTransmittedOnce ==
    /\ (StepOf("complete_handshake", "EncodeTlsData") /\ ev.step_res = "Ok") =>
           /\ ev.reads = 0 /\ ev.writes = 0 /\ ev.wire = <<>>
           /\ curr_used_buf_as_ref(self.out_buffer)
                  = curr_used_buf_as_ref(pre.out_buffer) \o ev.encoded
    /\ (StepOf("complete_handshake", "TransmitTlsData") /\ ev.wo # "err") =>
           /\ ev.writes = 1
           /\ ev.wire = curr_used_buf_as_ref(pre.out_buffer)
           /\ curr_used_buf_as_ref(self.out_buffer) = <<>>

\* A step whose record receive succeeded.
ReceivedRecord == ev.kind = "step" /\ ev.reads = 2 /\ ev.step_res = "Ok"
\* The bytes of the inbound buffer the step's discard left unconsumed.
Unconsumed ==
    SubSeqFrom(curr_used_buf_as_ref(pre.in_buffer),
               Min(ev.discard, pre.in_buffer.tail - pre.in_buffer.head),
               (pre.in_buffer.tail - pre.in_buffer.head)
                   - Min(ev.discard, pre.in_buffer.tail - pre.in_buffer.head))
\* The length the header of the received record declares.
DeclaredLength == ev.feed.hdr[4] * 256 + ev.feed.hdr[5]

\* C28: a successful record receive appends exactly one framed record to
\* the inbound buffer: the used region is then the bytes not yet consumed,
\* the 5 header bytes and the payload of exactly the length the header
\* declares, taken in two transport reads, of 5 bytes and of that length.
C28_ReceiveAppendsOneRecord ==
    ReceivedRecord =>
        /\ Len(ev.feed.hdr) = 5
        /\ Len(ev.feed.body) >= DeclaredLength
        /\ curr_used_buf_as_ref(self.in_buffer)
               = Unconsumed \o ev.feed.hdr \o SubSeqFrom(ev.feed.body, 0, DeclaredLength)
        /\ Len(curr_used_buf_as_ref(self.in_buffer))
               = Len(Unconsumed) + 5 + DeclaredLength

\* A receive behind bytes that are still unconsumed.
C28_Witness ==
    /\ ReceivedRecord
    /\ Len(Unconsumed) > 0
    /\ DeclaredLength > 0
    /\ self.in_buffer.tail - self.in_buffer.head = Len(Unconsumed) + 5 + DeclaredLength

\* ------------------------------------------------------------------------
\* Claims about the buffer's header parsing and head movement
\* ------------------------------------------------------------------------
\* C29: extract_record_len returns buf[tail+3] * 256 + buf[tail+4], the
\* big-endian length field of the 5-byte header at tail (sequences are
\* indexed from 1 here); it fails with BufferTooSmall exactly when
\* tail + 5 > capacity, and never changes head, tail or the bytes.
C29_ExtractRecordLen ==
    last.op = "extract_record_len" =>
        /\ tb = last.pre
        /\ last.res \in {"Ok", "BufferTooSmall"}
        /\ last.res = "BufferTooSmall" <=> last.pre.tail + 5 > Len(last.pre.buf)
        /\ last.res = "Ok" =>
               last.len = last.pre.buf[last.pre.tail + 4] * 256
                          + last.pre.buf[last.pre.tail + 5]

C29_Witness ==
    /\ last.op = "extract_record_len" /\ last.res = "Ok"
    /\ last.pre.tail > 0
    /\ last.pre.buf[last.pre.tail + 4] = 0
    /\ last.pre.buf[last.pre.tail + 5] = 255
    /\ last.len = 255

\* C30: move_head(n) sets head to min(head + n, tail) and leaves tail and
\* the bytes unchanged, for every n, also one larger than the used length;
\* it never fails. A negative argument stands for the usize 2^64 + n, with
\* which head + n is above every tail.
C30_MoveHeadClamps ==
    last.op = "move_head" =>
        /\ last.res = "Ok"
        /\ tb.tail = last.pre.tail
        /\ tb.buf = last.pre.buf
        /\ tb.head = IF last.arg < 0 \/ last.pre.head + last.arg > last.pre.tail
                     THEN last.pre.tail
                     ELSE last.pre.head + last.arg

\* The usize sum tail + n of the last call is above the capacity; a negative
\* argument stands for the usize 2^64 + n.
PastCapacity == last.arg < 0 \/ last.pre.tail + last.arg > Len(last.pre.buf)

\* C31: advance_used(n) and free_mut(n) fail with BufferTooSmall exactly
\* when tail + n > capacity and then leave head and tail unchanged; neither
\* compacts the buffer, and advance_used(n) on success changes only tail
\* (tail += n).
C31_AdvanceAndFreeMutFailPastCapacity ==
    /\ last.op = "advance_used" =>
           /\ last.res \in {"Ok", "BufferTooSmall"}
           /\ last.res = "BufferTooSmall" <=> PastCapacity
           /\ last.res = "BufferTooSmall" => tb = last.pre
           /\ last.res = "Ok" => tb = [last.pre EXCEPT !.tail = @ + last.arg]
    /\ last.op = "free_mut" =>
           /\ last.res \in {"Ok", "BufferTooSmall"}
           /\ last.res = "BufferTooSmall" <=> PastCapacity
           /\ last.res = "BufferTooSmall" => tb = last.pre
           /\ tb.head = last.pre.head /\ tb.tail = last.pre.tail

\* C32: the inbound capacity, 16 * 1024 + 17 + 5 with 16 * 1024 scaled to
\* MaxRecordLen, suffices for one record of the largest size: into a buffer
\* with no unconsumed bytes (head = tail, at any offset) the receive of a
\* record that declares at most MaxRecordLen + 17 bytes never fails with
\* BufferTooSmall.
C32_InboundCapacitySuffices ==
    (/\ last.op = "recv_record"
     /\ last.pre.head = last.pre.tail
     /\ last.arg <= MaxRecordLen + 17) =>
        /\ last.res # "BufferTooSmall"
        /\ Len(last.pre.buf) = MaxRecordLen + 17 + 5

\* The largest record, received behind an offset that leaves no room
\* without a compaction.
C32_Witness ==
    /\ last.op = "recv_record" /\ last.res = "Ok"
    /\ last.pre.head = last.pre.tail
    /\ last.pre.tail = Len(last.pre.buf) - 5
    /\ last.arg = MaxRecordLen + 17
    /\ tb.head = 0 /\ tb.tail = Len(tb.buf)

\* ------------------------------------------------------------------------
\* Claims about errors, closure and delivery
\* ------------------------------------------------------------------------
\* C33: when the engine returns an error while interpreting the inbound
\* buffer, the step returns it at once: no transport read or write, no
\* status flag changed, head and tail of both buffers unchanged.
C33_EngineErrorSurfaced ==
    (ev.kind = "step" /\ ev.state = "Err") =>
        /\ ev.step_res \in {"DecryptError", "InvalidMessage"}
        /\ ev.returned /\ ev.res = ev.step_res
        /\ ev.reads = 0 /\ ev.writes = 0 /\ ev.wire = <<>> /\ ev.copied = <<>>
        /\ self.status = pre.status
        /\ self.in_buffer = pre.in_buffer
        /\ self.out_buffer = pre.out_buffer

\* A record that fails to decrypt behind one the engine has consumed.
C33_Witness ==
    /\ ev.kind = "step" /\ ev.state = "Err" /\ ev.step_res = "DecryptError"
    /\ ev.op = "read_tls"
    /\ self.status.handshake_complete
    /\ self.in_buffer.tail > self.in_buffer.head

\* C34: decryption and malformed-message failures are unrecoverable: after
\* a public operation has returned DecryptError or InvalidMessage, no later
\* read or write on the connection returns success or delivers application
\* data.
C34_FatalErrorsAreFinal ==
    peer.fatal > 0 =>
        /\ ~(ev.op \in {"read_tls", "write_tls"} /\ ev.returned /\ ev.res = "Ok")
        /\ ev.copied = <<>>

\* A read after the handshake that fails again after the failure.
C34_Witness ==
    /\ peer.fatal = 2
    /\ ev.op = "read_tls" /\ ev.returned /\ ev.res = "DecryptError"
    /\ self.status.handshake_complete

\* C35: once our side has sent its close notification (our_side_closed is
\* true) no application data is sent: every later write_tls fails, encrypts
\* nothing into the outbound buffer and writes nothing to the transport.
C35_NoWriteAfterOurClose ==
    (ev.op = "write_tls" /\ ev.returned /\ pre.status.our_side_closed) =>
        /\ ev.res # "Ok"
        /\ ev.writes = 0 /\ ev.wire = <<>>
        /\ self.out_buffer = pre.out_buffer

\* C36: read_tls returns 0 at once, with no step, no transport access and
\* received_response left as it was, whenever the connection is already
\* closed on either side: peer_closed is set or our_side_closed is set.
C36_ReadOnEitherSideClosed ==
    (/\ ev.op = "read_tls" /\ ev.kind = "call"
     /\ pre.status.peer_closed \/ pre.status.our_side_closed) =>
        /\ ev.returned /\ ev.res = "Ok" /\ ev.n = 0
        /\ ev.engine = 0 /\ ev.reads = 0 /\ ev.writes = 0
        /\ self = pre

\* A WriteTraffic step that has nothing to send: under read intent, or
\* under close intent once our close notification is out.
ReceivingTrafficStep ==
    /\ ev.kind = "step" /\ ev.state = "WriteTraffic"
    /\ \/ ev.op = "read_tls"
       \/ ev.op = "close_tls" /\ pre.status.our_side_closed

\* C37: close_tls fails with UnexpectedState, and does not set
\* connection_closed, whenever the engine reports an application record
\* ready to read during a close step; a WriteTraffic step under read
\* intent, or under close intent once our_side_closed is set, performs one
\* record receive (two transport reads when it succeeds) and no transport
\* write.
C37_CloseWithUnreadRecord ==
    /\ StepOf("close_tls", "ReadTraffic") =>
           /\ ev.step_res = "UnexpectedState"
           /\ ev.returned /\ ev.res = "UnexpectedState"
           /\ ~self.status.connection_closed
           /\ self.status = pre.status
    /\ ReceivingTrafficStep =>
           /\ ev.writes = 0 /\ ev.wire = <<>>
           /\ self.out_buffer = pre.out_buffer
           /\ ev.reads <= 2
           /\ ev.step_res = "Ok" => ev.reads = 2
           /\ ev.step_res # "Ok" => ev.step_res \in {"IoError", "IncompleteRead", "BufferTooSmall"}

\* A close that meets the peer's application record after our close
\* notification went out.
C37_Witness ==
    /\ StepOf("close_tls", "ReadTraffic")
    /\ ev.res = "UnexpectedState"
    /\ self.status.our_side_closed
    /\ ~self.status.connection_closed

\* C38: no application byte the engine delivers is lost across reads: the
\* bytes the read calls return, concatenated, are the payloads of the
\* application records the engine delivered, also when a caller's buffer is
\* shorter than a record's payload. Each read takes one record and discards
\* it whole (C13), so every read that takes a record must return all of
\* its payload.
C38_NoDeliveredByteLost ==
    (StepOf("read_tls", "ReadTraffic") /\ ev.step_res = "Ok") =>
        /\ ev.copied = ev.payload
        /\ ev.n = Len(ev.payload)

\* The used region of the inbound buffer before the step without its first
\* k bytes.
KeptFrom(k) ==
    SubSeqFrom(curr_used_buf_as_ref(pre.in_buffer), k,
               (pre.in_buffer.tail - pre.in_buffer.head) - k)
\* After the step the inbound buffer presents the bytes before it without
\* the first k, followed by nothing but bytes the step received.
ConsumedGone(k) ==
    /\ k <= pre.in_buffer.tail - pre.in_buffer.head
    /\ Len(KeptFrom(k)) <= self.in_buffer.tail - self.in_buffer.head
    /\ SubSeqFrom(curr_used_buf_as_ref(self.in_buffer), 0, Len(KeptFrom(k))) = KeptFrom(k)
    /\ (self.in_buffer.tail - self.in_buffer.head) - Len(KeptFrom(k))
           <= Len(ev.feed.hdr) + Len(ev.feed.body)
    /\ SubSeqFrom(curr_used_buf_as_ref(self.in_buffer), Len(KeptFrom(k)),
                  (self.in_buffer.tail - self.in_buffer.head) - Len(KeptFrom(k)))
           = SubSeqFrom(ev.feed.hdr \o ev.feed.body, 0,
                        (self.in_buffer.tail - self.in_buffer.head) - Len(KeptFrom(k)))

EncryptingStep ==
    /\ ev.kind = "step" /\ ev.state = "WriteTraffic"
    /\ \/ ev.op = "write_tls"
       \/ ev.op = "close_tls" /\ ~pre.status.our_side_closed

OutboundEmpty(s) == s.out_buffer.head = 0 /\ s.out_buffer.tail = 0

\* C40: each transport write carries only the records produced for it: the
\* outbound buffer is empty (head = tail = 0) before application data or a
\* close-notification is encrypted into it, and it is empty whenever a
\* public operation returns, with success or with an error, once the
\* handshake is complete.
C40_OutboundEmptyBetweenWrites ==
    /\ EncryptingStep => OutboundEmpty(pre)
    /\ (ev.returned /\ self.status.handshake_complete) => OutboundEmpty(self)

====
